---- MODULE Spec2Model ----
(***************************************************************************)
(* Cross-platform identity resolution of osint-eye:                        *)
(* src/src/analysis/cross_platform_analyzer.py, class CrossPlatformAnalyzer *)
(*                                                                         *)
(* Text is a sequence of one-character strings.  Numbers that are floats   *)
(* in the program (0.9, 0.85, ...) are kept exactly, as hundredths.        *)
(***************************************************************************)
EXTENDS Integers, Sequences, FiniteSets, TLC

VARIABLES
    pc,             \* the operation that produced the current results
    text,           \* argument of _normalize_username / _normalize_name
    normalized,     \* value returned by the normalizer
    profiles_data,  \* argument of find_cross_platform_accounts
    result,         \* value returned by find_cross_platform_accounts
    previous,       \* value returned on the previous presentation of the batch
    all_analyses,   \* argument of generate_identity_confidence_score
    score,          \* value returned by generate_identity_confidence_score
    prev_score,     \* value returned before the last indicator was added
    outcome,        \* what the analyses of the batch returned or raised
    features,       \* the two arguments of _calculate_style_similarity or of
                    \* _calculate_username_similarity
    options,        \* first_name and last_name given to generate_username_variations,
                    \* and the year of the clock
    username_patterns   \* self.username_patterns, the one attribute of the analyzer

vars == <<pc, text, normalized, profiles_data, result, previous,
          all_analyses, score, prev_score, outcome, features, options, username_patterns>>

\* CrossPlatformAnalyzer(): the attribute the constructor sets
__init__ ==
    <<"^[a-zA-Z0-9_]+$", "^[a-zA-Z0-9._]+$", "^[a-zA-Z0-9-]+$">>

-----------------------------------------------------------------------------
(* Bounds of the model *)

MaxStrLen == 3
MaxBatch == 3
MaxMatches == 2
MaxPosts == 2
MaxHundredths == 100
MaxRunBatch == 2

-----------------------------------------------------------------------------
(* Characters and the classes the regular expressions use *)

UpperAlphabet == <<"A", "B", "C", "D", "E", "F", "G", "H", "I", "J", "K", "L", "M",
                  "N", "O", "P", "Q", "R", "S", "T", "U", "V", "W", "X", "Y", "Z">>
LowerAlphabet == <<"a", "b", "c", "d", "e", "f", "g", "h", "i", "j", "k", "l", "m",
                  "n", "o", "p", "q", "r", "s", "t", "u", "v", "w", "x", "y", "z">>
DigitAlphabet == <<"0", "1", "2", "3", "4", "5", "6", "7", "8", "9">>

Range(seq) == {seq[i] : i \in 1..Len(seq)}
IndexOf(seq, c) == CHOOSE i \in 1..Len(seq) : seq[i] = c

UpperLetters == Range(UpperAlphabet)
LowerLetters == Range(LowerAlphabet)
Digits == Range(DigitAlphabet)
Whitespace == {" ", "\n"}

\* code points, for the ordering sorted() uses on str
Ord(c) ==
    CASE c \in UpperLetters -> 64 + IndexOf(UpperAlphabet, c)
      [] c \in LowerLetters -> 96 + IndexOf(LowerAlphabet, c)
      [] c \in Digits -> 47 + IndexOf(DigitAlphabet, c)
      [] c = "\n" -> 10 [] c = " " -> 32 [] c = "!" -> 33 [] c = "#" -> 35
      [] c = "$" -> 36
      [] c = "-" -> 45 [] c = "." -> 46 [] c = "/" -> 47 [] c = ":" -> 58
      [] c = "@" -> 64 [] c = "_" -> 95

\* str.lower() on one character
LowerChar(c) ==
    IF c \in UpperLetters THEN LowerAlphabet[IndexOf(UpperAlphabet, c)] ELSE c

\* \d, \w and \s of the re module
IsDigit(c) == c \in Digits
IsWord(c) == c \in LowerLetters \cup UpperLetters \cup Digits \cup {"_"}
IsSpace(c) == c \in Whitespace

\* str.lower()
Lower(s) == [i \in 1..Len(s) |-> LowerChar(s[i])]

\* re.sub of a one-character class by '': the characters for which Del is false
DropChars(s, Del(_)) == SelectSeq(s, LAMBDA c: ~Del(c))

\* s without its trailing run of digits
RECURSIVE DropDigitsAtEnd(_)
DropDigitsAtEnd(s) ==
    IF s # <<>> /\ IsDigit(s[Len(s)])
    THEN DropDigitsAtEnd(SubSeq(s, 1, Len(s) - 1))
    ELSE s

\* re.sub(r'\d+$', '', s): $ matches at the end of the string and also just
\* before a newline that ends the string, so the run of digits removed is the
\* one that ends the string or the one that precedes its final newline
StripTrailingDigits(s) ==
    IF s # <<>> /\ s[Len(s)] = "\n"
    THEN DropDigitsAtEnd(SubSeq(s, 1, Len(s) - 1)) \o <<"\n">>
    ELSE DropDigitsAtEnd(s)

\* ' '.join(s.split()): runs of whitespace become one space, none at the ends
RECURSIVE SplitJoin(_, _, _)
SplitJoin(s, started, gap) ==
    IF s = <<>> THEN <<>>
    ELSE IF IsSpace(Head(s)) THEN SplitJoin(Tail(s), started, started)
         ELSE (IF gap THEN <<" ">> ELSE <<>>) \o <<Head(s)>>
              \o SplitJoin(Tail(s), TRUE, FALSE)

CollapseWhitespace(s) == SplitJoin(s, FALSE, FALSE)

IsSeparator(c) == c \in {".", "_", "-"}
IsPunctuation(c) == ~IsWord(c) /\ ~IsSpace(c)

-----------------------------------------------------------------------------
(* The normalizers *)

_normalize_username(username) ==
    IF username = <<>> THEN <<>>
    ELSE StripTrailingDigits(DropChars(Lower(username), IsSeparator))

_normalize_name(name) ==
    IF name = <<>> THEN <<>>
    ELSE CollapseWhitespace(DropChars(Lower(name), IsPunctuation))

-----------------------------------------------------------------------------
(* Fingerprints *)

\* hashlib.md5(s.encode()).hexdigest()[:n]: the digest is kept as the text it
\* was computed from, with the number of hex digits retained
Md5Hex(s, n) == [md5 |-> s, hexdigits |-> n]

\* length of the longest prefix matching \S* and \w*
RECURSIVE NonSpaceRun(_)
NonSpaceRun(s) ==
    IF s = <<>> \/ IsSpace(Head(s)) THEN 0 ELSE 1 + NonSpaceRun(Tail(s))

RECURSIVE WordRun(_)
WordRun(s) ==
    IF s = <<>> \/ ~IsWord(Head(s)) THEN 0 ELSE 1 + WordRun(Tail(s))

Drop(s, n) == SubSeq(s, n + 1, Len(s))

StartsWithHttp(s) ==
    Len(s) >= 4 /\ SubSeq(s, 1, 4) = <<"h", "t", "t", "p">>

\* re.sub(r'http\S+|@\w+|#\w+', '', s): leftmost match, alternatives in order,
\* each repetition greedy
RECURSIVE StripUrlsMentionsHashtags(_)
StripUrlsMentionsHashtags(s) ==
    IF s = <<>> THEN <<>>
    ELSE IF StartsWithHttp(s) /\ NonSpaceRun(Drop(s, 4)) > 0
         THEN StripUrlsMentionsHashtags(Drop(s, 4 + NonSpaceRun(Drop(s, 4))))
    ELSE IF Head(s) \in {"@", "#"} /\ WordRun(Tail(s)) > 0
         THEN StripUrlsMentionsHashtags(Drop(s, 1 + WordRun(Tail(s))))
    ELSE <<Head(s)>> \o StripUrlsMentionsHashtags(Tail(s))

_get_bio_hash(bio) ==
    Md5Hex(CollapseWhitespace(DropChars(StripUrlsMentionsHashtags(Lower(bio)),
                                        IsPunctuation)), 8)

-----------------------------------------------------------------------------
(* Reading the fields of a record: a dict is a function on the keys it has *)

\* None, held as a text where a str is expected, as a list where a list is and
\* as a dict where a dict is
None == <<"None">>
NonePosts == <<[none |-> TRUE]>>
NoneProfile == [none |-> TRUE]

\* d.get(key, default)
Get(d, key, default) == IF key \in DOMAIN d THEN d[key] ELSE default

\* d.get(key1) or d.get(key2) or ''
FirstTruthy(d, key1, key2) ==
    IF Get(d, key1, None) \notin {None, <<>>} THEN d[key1]
    ELSE IF Get(d, key2, None) \notin {None, <<>>} THEN d[key2]
    ELSE <<>>

\* the empty dict
NoProfile == [k \in {} |-> 0]

PlatformOf(profile_data) == Get(profile_data, "platform", <<>>)
ProfileOf(profile_data) == Get(profile_data, "profile", NoProfile)
PostsOf(profile_data) == Get(profile_data, "posts", <<>>)
UsernameOf(profile_data) == Get(ProfileOf(profile_data), "username", <<>>)
DisplayNameOf(profile_data) ==
    FirstTruthy(ProfileOf(profile_data), "display_name", "full_name")
BioOf(profile_data) == FirstTruthy(ProfileOf(profile_data), "biography", "description")

-----------------------------------------------------------------------------
(* find_cross_platform_accounts *)

\* the length a biography must exceed to be grouped
BioMinLen == 20

\* the username pass without the test that the key is not empty
UsernameKeyUngated(profile_data) ==
    [grouped |-> TRUE,
     key |-> _normalize_username(Lower(UsernameOf(profile_data)))]

\* the username pass grouping by the lower-cased username as given
UsernameKeyRaw(profile_data) ==
    LET username == Lower(UsernameOf(profile_data))
    IN  [grouped |-> username # <<>>, key |-> username]

\* the key under which each pass groups a record, and whether it groups it
UsernameKey(profile_data) ==
    LET username_key == _normalize_username(Lower(UsernameOf(profile_data)))
    IN  [grouped |-> username_key # <<>>, key |-> username_key]

NameKey(profile_data) ==
    LET display_name == Lower(DisplayNameOf(profile_data))
    IN  [grouped |-> display_name # <<>>, key |-> _normalize_name(display_name)]

BioKey(profile_data) ==
    LET bio == Lower(BioOf(profile_data))
    IN  [grouped |-> bio # <<>> /\ Len(bio) > BioMinLen, key |-> _get_bio_hash(bio)]

\* a defaultdict(list) in insertion order: a sequence of <<key, members>>,
\* a member being the tuple (platform, profile_data)
GroupAppend(groups, key, member) ==
    IF \E j \in 1..Len(groups) : groups[j][1] = key
    THEN [j \in 1..Len(groups) |->
            IF groups[j][1] = key THEN <<key, Append(groups[j][2], member)>>
            ELSE groups[j]]
    ELSE Append(groups, <<key, <<member>>>>)

PassKey(pass, profile_data) ==
    CASE pass = "username" -> UsernameKey(profile_data)
      [] pass = "display_name" -> NameKey(profile_data)
      [] pass = "biography" -> BioKey(profile_data)

\* the loop over profiles_data, for one of the three groupings
RECURSIVE GroupProfiles(_, _, _)
GroupProfiles(batch, pass, groups) ==
    IF batch = <<>> THEN groups
    ELSE LET profile_data == Head(batch)
             k == PassKey(pass, profile_data)
         IN  GroupProfiles(Tail(batch), pass,
                 IF k.grouped
                 THEN GroupAppend(groups, k.key,
                                  <<PlatformOf(profile_data), profile_data>>)
                 ELSE groups)

\* a group of one member counted as a match
IsMatchGroupNonEmpty(profiles) == Len(profiles) >= 1

\* a group is a match when it has more than one member
IsMatchGroup(profiles) == Len(profiles) > 1

PassConfidence(pass) ==
    CASE pass = "username" -> 90
      [] pass = "display_name" -> 70
      [] pass = "biography" -> 80

RECURSIVE GroupMatches(_, _)
GroupMatches(groups, pass) ==
    IF groups = <<>> THEN <<>>
    ELSE (IF IsMatchGroup(Head(groups)[2])
          THEN <<[match_type |-> pass, confidence |-> PassConfidence(pass),
                  profiles |-> Head(groups)[2], identifier |-> Head(groups)[1]]>>
          ELSE <<>>)
         \o GroupMatches(Tail(groups), pass)

FindMatches(batch) ==
    GroupMatches(GroupProfiles(batch, "username", <<>>), "username")
    \o GroupMatches(GroupProfiles(batch, "display_name", <<>>), "display_name")
    \o GroupMatches(GroupProfiles(batch, "biography", <<>>), "biography")

\* str < str: code point order, a proper prefix first
RECURSIVE StrLess(_, _)
StrLess(x, y) ==
    IF y = <<>> THEN FALSE
    ELSE IF x = <<>> THEN TRUE
    ELSE IF Head(x) # Head(y) THEN Ord(Head(x)) < Ord(Head(y))
    ELSE StrLess(Tail(x), Tail(y))

\* f"{p[0]}:{p[1]['profile']['username']}"
QualifiedId(p) == p[1] \o <<":">> \o p[2].profile.username

MemberIds(profiles) == [i \in 1..Len(profiles) |-> QualifiedId(profiles[i])]

\* the key taken in the order of the group, not sorted
ProfileKeyUnsorted(profiles) == MemberIds(profiles)

\* tuple(sorted([...]))
ProfileKey(profiles) == SortSeq(MemberIds(profiles), StrLess)

RECURSIVE ConsolidateLoop(_, _, _)
ConsolidateLoop(matches, consolidated, processed_profiles) ==
    IF matches = <<>> THEN consolidated
    ELSE LET match == Head(matches)
             profiles == match.profiles
             profile_key == ProfileKey(profiles)
         IN  IF profile_key \notin processed_profiles
             THEN ConsolidateLoop(Tail(matches),
                      Append(consolidated,
                          [user_id |-> Md5Hex(profile_key, 8),
                           platforms |-> [i \in 1..Len(profiles) |-> profiles[i][1]],
                           profiles |-> profiles,
                           match_confidence |-> match.confidence,
                           match_type |-> match.match_type]),
                      processed_profiles \cup {profile_key})
             ELSE ConsolidateLoop(Tail(matches), consolidated, processed_profiles)

\* every match made an entry, whatever was processed before
EveryMatchAnEntry(matches) ==
    [k \in 1..Len(matches) |->
        [user_id |-> Md5Hex(ProfileKey(matches[k].profiles), 8),
         platforms |-> [i \in 1..Len(matches[k].profiles) |-> matches[k].profiles[i][1]],
         profiles |-> matches[k].profiles,
         match_confidence |-> matches[k].confidence,
         match_type |-> matches[k].match_type]]

_consolidate_matches(matches) == ConsolidateLoop(matches, <<>>, {})

find_cross_platform_accounts(batch) ==
    LET matches == FindMatches(batch)
    IN  [total_matches |-> Len(matches),
         matches |-> matches,
         cross_platform_users |-> _consolidate_matches(matches)]

\* the value or the exception an operation ends with
Returned(v) == [raised |-> "", value |-> v]
Raised(e) == [raised |-> e, value |-> <<>>]

\* the loop over profiles_data raises AttributeError on a record whose profile
\* is None (None.get) or whose username is None (None.lower)
GroupingRaises(profile_data) ==
    \/ ProfileOf(profile_data) = NoneProfile
    \/ UsernameOf(profile_data) = None

\* p[1]['profile']['username'] raises KeyError on a member without the key
ConsolidationRaises(matches) ==
    \E i \in 1..Len(matches) : \E j \in 1..Len(matches[i].profiles) :
        LET profile_data == matches[i].profiles[j][2]
        IN  \/ "profile" \notin DOMAIN profile_data
            \/ "username" \notin DOMAIN profile_data.profile

\* find_cross_platform_accounts on any batch: what it returns, or what it raises
FindAccountsOutcome(batch) ==
    IF \E i \in 1..Len(batch) : GroupingRaises(batch[i])
    THEN Raised("AttributeError")
    ELSE IF ConsolidationRaises(FindMatches(batch)) THEN Raised("KeyError")
    ELSE Returned(find_cross_platform_accounts(batch))

-----------------------------------------------------------------------------
(* generate_identity_confidence_score *)

\* a float held exactly, as <<numerator, denominator>> with denominator > 0
RatGeq(a, b) == a[1] * b[2] >= b[1] * a[2]
RatEq(a, b) == a[1] * b[2] = b[1] * a[2]
Hundredths(n) == <<n, 100>>

\* the thresholds taken as exclusive lower bounds
LikelihoodLabelExclusive(confidence_score) ==
    IF ~RatGeq(Hundredths(80), confidence_score) THEN "Very High"
    ELSE IF ~RatGeq(Hundredths(60), confidence_score) THEN "High"
    ELSE IF ~RatGeq(Hundredths(40), confidence_score) THEN "Medium"
    ELSE IF ~RatGeq(Hundredths(20), confidence_score) THEN "Low"
    ELSE "Very Low"

_get_likelihood_label(confidence_score) ==
    IF RatGeq(confidence_score, Hundredths(80)) THEN "Very High"
    ELSE IF RatGeq(confidence_score, Hundredths(60)) THEN "High"
    ELSE IF RatGeq(confidence_score, Hundredths(40)) THEN "Medium"
    ELSE IF RatGeq(confidence_score, Hundredths(20)) THEN "Low"
    ELSE "Very Low"

\* the keys of all_analyses, in the order the function reads them
AnalysisKeys == <<"cross_platform_matches", "writing_style", "behavioral_correlation",
                  "content_overlap", "timing_correlation">>

\* the number of items an analysis holds that count for its indicator
IndicatorCount(analyses, key) ==
    IF key \notin DOMAIN analyses THEN 0
    ELSE IF key = "cross_platform_matches"
         THEN Len(SelectSeq(analyses[key].matches,
                            LAMBDA m : m.match_type = "username"))
         ELSE analyses[key][CHOOSE f \in DOMAIN analyses[key] : TRUE]

\* the factor appended for an analysis, in hundredths
Factor(key) ==
    CASE key = "cross_platform_matches" -> <<"username_match", 90>>
      [] key = "writing_style" -> <<"writing_style", 80>>
      [] key = "behavioral_correlation" -> <<"behavioral_pattern", 70>>
      [] key = "content_overlap" -> <<"content_overlap", 85>>
      [] key = "timing_correlation" -> <<"timing_pattern", 60>>

RECURSIVE ConfidenceFactors(_, _)
ConfidenceFactors(analyses, keys) ==
    IF keys = <<>> THEN <<>>
    ELSE (IF IndicatorCount(analyses, Head(keys)) > 0
          THEN <<Factor(Head(keys))>> ELSE <<>>)
         \o ConfidenceFactors(analyses, Tail(keys))

RECURSIVE SumWeights(_)
SumWeights(factors) ==
    IF factors = <<>> THEN 0 ELSE Head(factors)[2] + SumWeights(Tail(factors))

\* the total weight divided by the number of analyses the function reads
ConfidenceScoreOverAllSignals(confidence_factors) ==
    IF confidence_factors # <<>>
    THEN <<SumWeights(confidence_factors), 100 * Len(AnalysisKeys)>>
    ELSE <<0, 1>>

\* total_weight / len(confidence_factors), or 0.0 without factors
ConfidenceScore(confidence_factors) ==
    IF confidence_factors # <<>>
    THEN <<SumWeights(confidence_factors), 100 * Len(confidence_factors)>>
    ELSE <<0, 1>>

generate_identity_confidence_score(analyses) ==
    LET confidence_factors == ConfidenceFactors(analyses, AnalysisKeys)
        confidence_score == ConfidenceScore(confidence_factors)
    IN  [overall_confidence |-> confidence_score,
         confidence_factors |-> confidence_factors,
         identity_likelihood |-> _get_likelihood_label(confidence_score),
         matching_indicators |-> Len(confidence_factors)]

-----------------------------------------------------------------------------
(* analyze_timing_correlation *)

\* datetime.fromisoformat on the 'date' of the posts: a post without a date or
\* with one that does not parse is skipped; a parsed time is held in hours
RECURSIVE PostTimes(_)
PostTimes(posts) ==
    IF posts = <<>> THEN <<>>
    ELSE (IF Head(posts).date.kind = "iso" THEN <<Head(posts).date.hours>> ELSE <<>>)
         \o PostTimes(Tail(posts))

\* the module imports datetime only (line 4): the name timedelta at line 501
\* is not defined, and evaluating it raises NameError
_calculate_timing_correlation(times1, times2) ==
    IF times1 = <<>> \/ times2 = <<>> THEN Returned(<<0, 1>>)
    ELSE Raised("NameError")

\* platform_timings: a dict keyed by platform, in insertion order; a second
\* record of a platform replaces the value and keeps the position
TimingsPut(timings, platform, post_times) ==
    IF \E j \in 1..Len(timings) : timings[j][1] = platform
    THEN [j \in 1..Len(timings) |->
            IF timings[j][1] = platform THEN <<platform, post_times>> ELSE timings[j]]
    ELSE Append(timings, <<platform, post_times>>)

RECURSIVE PlatformTimings(_, _)
PlatformTimings(batch, timings) ==
    IF batch = <<>> THEN timings
    ELSE LET post_times == PostTimes(PostsOf(Head(batch)))
         IN  PlatformTimings(Tail(batch),
                 IF post_times # <<>>
                 THEN TimingsPut(timings, PlatformOf(Head(batch)), post_times)
                 ELSE timings)

\* the pairs i < j of the platforms, in the order of the two loops
PlatformPairs(n) ==
    {<<i, j>> \in (1..n) \X (1..n) : i < j}

analyze_timing_correlation(batch) ==
    LET timings == PlatformTimings(batch, <<>>)
        correlation(ij) ==
            _calculate_timing_correlation(timings[ij[1]][2], timings[ij[2]][2])
        pairs == PlatformPairs(Len(timings))
    IN  IF \E i \in 1..Len(batch) : PostsOf(batch[i]) = NonePosts
        THEN Raised("TypeError")
        ELSE IF \E ij \in pairs : correlation(ij).raised # ""
        THEN Raised("NameError")
        ELSE Returned([timing_correlations |->
                 Cardinality({ij \in pairs :
                     /\ RatGeq(correlation(ij).value, <<1, 2>>)
                     /\ ~RatEq(correlation(ij).value, <<1, 2>>)})])

-----------------------------------------------------------------------------
(* analyze_behavioral_correlation *)

RatAdd(a, b) == <<a[1] * b[2] + b[1] * a[2], a[2] * b[2]>>
RatMax(a, b) == IF RatGeq(a, b) THEN a ELSE b

RECURSIVE RatSum(_)
RatSum(values) ==
    IF values = <<>> THEN <<0, 1>> ELSE RatAdd(Head(values), RatSum(Tail(values)))

\* np.mean of a non-empty list
RatMean(values) == <<RatSum(values)[1], RatSum(values)[2] * Len(values)>>

Abs(n) == IF n < 0 THEN -n ELSE n
Max(a, b) == IF a >= b THEN a ELSE b

\* a parsed time is held in hours since a Monday, 00:00
HourOf(dt) == dt % 24
WeekdayOf(dt) == (dt \div 24) % 7

\* a defaultdict(int) in insertion order: a sequence of <<key, count>>
CountInto(distribution, key) ==
    IF \E j \in 1..Len(distribution) : distribution[j][1] = key
    THEN [j \in 1..Len(distribution) |->
            IF distribution[j][1] = key THEN <<key, distribution[j][2] + 1>>
            ELSE distribution[j]]
    ELSE Append(distribution, <<key, 1>>)

\* for dt in post_dates: distribution[part of dt] += 1
RECURSIVE Distribution(_, _)
Distribution(parts, distribution) ==
    IF parts = <<>> THEN distribution
    ELSE Distribution(Tail(parts), CountInto(distribution, Head(parts)))

\* max(d, key=d.get) if d else 0: the first key holding the largest count
MostActive(distribution) ==
    IF distribution = <<>> THEN 0
    ELSE LET first == CHOOSE j \in 1..Len(distribution) :
                 /\ \A k \in 1..Len(distribution) :
                        distribution[k][2] <= distribution[j][2]
                 /\ \A k \in 1..(j - 1) : distribution[k][2] < distribution[j][2]
         IN  distribution[first][1]

\* len(p.get('caption', '') or p.get('content', '')) summed over the posts
RECURSIVE SumContentLength(_)
SumContentLength(posts) ==
    IF posts = <<>> THEN 0
    ELSE Len(Head(posts).caption) + SumContentLength(Tail(posts))

RECURSIVE SumLikes(_)
SumLikes(posts) ==
    IF posts = <<>> THEN 0 ELSE Head(posts).likes + SumLikes(Tail(posts))

\* the empty dict
NoFeatures == [k \in {} |-> 0]

_extract_behavioral_features(posts) ==
    IF posts \in {<<>>, NonePosts} THEN NoFeatures
    ELSE LET post_dates == PostTimes(posts)
             hour_distribution ==
                 Distribution([i \in 1..Len(post_dates) |-> HourOf(post_dates[i])], <<>>)
             day_distribution ==
                 Distribution([i \in 1..Len(post_dates) |-> WeekdayOf(post_dates[i])], <<>>)
         IN  [posting_frequency |-> Len(posts),
              avg_content_length |-> <<SumContentLength(posts), Len(posts)>>,
              avg_engagement |-> <<SumLikes(posts), Len(posts)>>,
              most_active_hour |-> MostActive(hour_distribution),
              most_active_day |-> MostActive(day_distribution),
              hour_distribution |-> hour_distribution,
              day_distribution |-> day_distribution]

\* 1 - (hour_diff / 12)
HourCorrelation(behavior1, behavior2) ==
    <<12 - Abs(behavior1.most_active_hour - behavior2.most_active_hour), 12>>

\* max(0, 1 - (day_diff / 3.5))
DayCorrelation(behavior1, behavior2) ==
    RatMax(<<0, 1>>,
           <<7 - 2 * Abs(behavior1.most_active_day - behavior2.most_active_day), 7>>)

\* 1 - abs(len1 - len2) / max(len1, len2, 1), for len1 = s1/n1 and len2 = s2/n2
LengthCorrelation(behavior1, behavior2) ==
    LET s1n2 == behavior1.avg_content_length[1] * behavior2.avg_content_length[2]
        s2n1 == behavior2.avg_content_length[1] * behavior1.avg_content_length[2]
        n1n2 == behavior1.avg_content_length[2] * behavior2.avg_content_length[2]
        max_len == Max(Max(s1n2, s2n1), n1n2)
    IN  <<max_len - Abs(s1n2 - s2n1), max_len>>

\* the correlations appended, in order: each needs its key in both dicts
Correlations(behavior1, behavior2) ==
    (IF "most_active_hour" \in DOMAIN behavior1 \cap DOMAIN behavior2
     THEN <<HourCorrelation(behavior1, behavior2)>> ELSE <<>>)
    \o (IF "most_active_day" \in DOMAIN behavior1 \cap DOMAIN behavior2
        THEN <<DayCorrelation(behavior1, behavior2)>> ELSE <<>>)
    \o (IF "avg_content_length" \in DOMAIN behavior1 \cap DOMAIN behavior2
        THEN <<LengthCorrelation(behavior1, behavior2)>> ELSE <<>>)

_calculate_behavioral_correlation(behavior1, behavior2) ==
    IF DOMAIN behavior1 = {} \/ DOMAIN behavior2 = {} THEN <<0, 1>>
    ELSE LET correlations == Correlations(behavior1, behavior2)
         IN  IF correlations # <<>> THEN RatMean(correlations) ELSE <<0, 1>>

\* the pairs i < j of range(n), in the order of the two loops
PairsInOrder(n) ==
    SelectSeq([k \in 1..(n * n) |-> <<((k - 1) \div n) + 1, ((k - 1) % n) + 1>>],
              LAMBDA ij : ij[1] < ij[2])

_get_matching_behaviors(behavior1, behavior2) ==
    LET s1n2 == behavior1.avg_content_length[1] * behavior2.avg_content_length[2]
        s2n1 == behavior2.avg_content_length[1] * behavior1.avg_content_length[2]
    IN  (IF Abs(behavior1.most_active_hour - behavior2.most_active_hour) <= 2
         THEN <<"similar_active_hours">> ELSE <<>>)
        \o (IF Abs(behavior1.most_active_day - behavior2.most_active_day) <= 1
            THEN <<"similar_active_days">> ELSE <<>>)
        \o (IF /\ s1n2 > 0 /\ s2n1 > 0
               /\ 10 * Abs(s1n2 - s2n1) < 3 * Max(s1n2, s2n1)
            THEN <<"similar_content_length">> ELSE <<>>)

\* correlation > 0.6
IsBehavioralMatch(correlation) == ~RatGeq(Hundredths(60), correlation)

analyze_behavioral_correlation(batch) ==
    LET behavior_features(i) == _extract_behavioral_features(PostsOf(batch[i]))
        correlation(ij) ==
            _calculate_behavioral_correlation(behavior_features(ij[1]),
                                              behavior_features(ij[2]))
        matching == SelectSeq(PairsInOrder(Len(batch)),
                              LAMBDA ij : IsBehavioralMatch(correlation(ij)))
        correlations ==
            [k \in 1..Len(matching) |->
                [profile1 |-> PlatformOf(batch[matching[k][1]]),
                 profile2 |-> PlatformOf(batch[matching[k][2]]),
                 correlation_score |-> correlation(matching[k]),
                 matching_behaviors |->
                     _get_matching_behaviors(behavior_features(matching[k][1]),
                                             behavior_features(matching[k][2]))]]
    IN  [behavioral_correlations |-> correlations,
         total_correlations |-> Len(correlations)]

-----------------------------------------------------------------------------
(* analyze_content_overlap *)

\* re.sub(r'http\S+', '', s)
RECURSIVE StripUrls(_)
StripUrls(s) ==
    IF s = <<>> THEN <<>>
    ELSE IF StartsWithHttp(s) /\ NonSpaceRun(Drop(s, 4)) > 0
         THEN StripUrls(Drop(s, 4 + NonSpaceRun(Drop(s, 4))))
    ELSE <<Head(s)>> \o StripUrls(Tail(s))

\* re.sub(r'@\w+', '', s) and re.sub(r'#\w+', '', s)
RECURSIVE StripTagged(_, _)
StripTagged(s, mark) ==
    IF s = <<>> THEN <<>>
    ELSE IF Head(s) = mark /\ WordRun(Tail(s)) > 0
         THEN StripTagged(Drop(s, 1 + WordRun(Tail(s))), mark)
    ELSE <<Head(s)>> \o StripTagged(Tail(s), mark)

_create_content_hash(content) ==
    Md5Hex(CollapseWhitespace(DropChars(
               StripTagged(StripTagged(StripUrls(Lower(content)), "@"), "#"),
               IsPunctuation)), 12)

ContentMinLen == 20
ContentKept == 200

ContentOf(post) == FirstTruthy(post, "caption", "content")

\* the loop over the posts of one record
RECURSIVE HashPosts(_, _, _)
HashPosts(posts, platform, content_hashes) ==
    IF posts = <<>> THEN content_hashes
    ELSE LET post == Head(posts)
             content == ContentOf(post)
         IN  HashPosts(Tail(posts), platform,
                 IF content # <<>> /\ Len(content) > ContentMinLen
                 THEN GroupAppend(content_hashes, _create_content_hash(content),
                          [platform |-> platform, post |-> post,
                           content |-> SubSeq(content, 1,
                                              IF Len(content) < ContentKept
                                              THEN Len(content) ELSE ContentKept)])
                 ELSE content_hashes)

\* the loop over profiles_data
RECURSIVE ContentHashes(_, _)
ContentHashes(batch, content_hashes) ==
    IF batch = <<>> THEN content_hashes
    ELSE ContentHashes(Tail(batch),
             HashPosts(PostsOf(Head(batch)), PlatformOf(Head(batch)),
                       content_hashes))

PlatformsOf(posts) == [i \in 1..Len(posts) |-> posts[i].platform]

\* content counted as cross-posted as soon as two posts carry it
IsCrossPostAnyRepeat(posts) == Len(posts) > 1

IsCrossPost(posts) ==
    /\ Len(posts) > 1
    /\ Cardinality({posts[i].platform : i \in 1..Len(posts)}) > 1

RECURSIVE CrossPosts(_)
CrossPosts(content_hashes) ==
    IF content_hashes = <<>> THEN <<>>
    ELSE LET content_hash == Head(content_hashes)[1]
             posts == Head(content_hashes)[2]
         IN  (IF IsCrossPost(posts)
              THEN <<[content_hash |-> content_hash,
                      platforms |-> PlatformsOf(posts),
                      posts |-> posts,
                      cross_platform_count |->
                          Cardinality({posts[i].platform : i \in 1..Len(posts)})]>>
              ELSE <<>>)
             \o CrossPosts(Tail(content_hashes))

\* for post in posts raises TypeError on posts held as None
analyze_content_overlap(batch) ==
    IF \E i \in 1..Len(batch) : PostsOf(batch[i]) = NonePosts
    THEN Raised("TypeError")
    ELSE LET content_hashes == ContentHashes(batch, <<>>)
             cross_posts == CrossPosts(content_hashes)
         IN  Returned([cross_posted_content |-> cross_posts,
                       total_cross_posts |-> Len(cross_posts),
                       cross_posting_ratio |->
                           <<Len(cross_posts), Max(1, Len(content_hashes))>>])

-----------------------------------------------------------------------------
(* _calculate_style_similarity *)

\* 1 - abs(val1 - val2) / max(val1, val2, 1)
FeatureSimilarity(val1, val2) ==
    LET a == val1[1] * val2[2]
        b == val2[1] * val1[2]
        one == val1[2] * val2[2]
        max_val == Max(Max(a, b), one)
    IN  <<max_val - Abs(a - b), max_val>>

\* a set in some order
RECURSIVE SeqOf(_)
SeqOf(S) ==
    IF S = {} THEN <<>>
    ELSE LET x == CHOOSE y \in S : TRUE IN <<x>> \o SeqOf(S \ {x})

_calculate_style_similarity(features1, features2) ==
    IF DOMAIN features1 = {} \/ DOMAIN features2 = {} THEN <<0, 1>>
    ELSE LET common_keys == SeqOf(DOMAIN features1 \cap DOMAIN features2)
         IN  IF common_keys = <<>> THEN <<0, 1>>
             ELSE RatMean([k \in 1..Len(common_keys) |->
                              FeatureSimilarity(features1[common_keys[k]],
                                                features2[common_keys[k]])])

-----------------------------------------------------------------------------
(* The variation generators: AdvancedDiscovery.generate_username_variations  *)
(* of src/src/search/advanced_discovery.py and                             *)
(* CrossPlatformCorrelator._generate_username_variations of                 *)
(* src/src/analysis/cross_platform_correlator.py                            *)

\* str.upper() and str.capitalize()
UpperChar(c) ==
    IF c \in LowerLetters THEN UpperAlphabet[IndexOf(LowerAlphabet, c)] ELSE c

Upper(s) == [i \in 1..Len(s) |-> UpperChar(s[i])]

Capitalize(s) ==
    [i \in 1..Len(s) |-> IF i = 1 THEN UpperChar(s[i]) ELSE LowerChar(s[i])]

\* str.replace(old, new) for one-character strings
Replace(s, old, new) == [i \in 1..Len(s) |-> IF s[i] = old THEN new ELSE s[i]]

\* the decimal digits of a positive integer, as f"{i}" writes them
RECURSIVE Decimal(_)
Decimal(n) ==
    IF n < 10 THEN <<DigitAlphabet[n + 1]>>
    ELSE Decimal(n \div 10) \o <<DigitAlphabet[(n % 10) + 1]>>

\* the number of variations generate_username_variations keeps
VariationLimit == 100

\* char_subs, as (char, sub) pairs
CharSubs == {<<"a", "@">>, <<"a", "4">>, <<"e", "3">>, <<"i", "1">>, <<"i", "!">>,
             <<"o", "0">>, <<"s", "5">>, <<"s", "$">>, <<"t", "7">>}

_generate_name_variations(first_name, last_name) ==
    LET first == Lower(first_name)
        last == Lower(last_name)
        dot == <<".">>
        underscore == <<"_">>
    IN  { first \o dot \o last, first \o underscore \o last, first \o last,
          last \o dot \o first, last \o underscore \o first, last \o first,
          <<first[1]>> \o dot \o last, first \o dot \o <<last[1]>>,
          <<first[1]>> \o last, first \o <<last[1]>> }
        \cup UNION {{ first \o dot \o last \o Decimal(i),
                      first \o underscore \o last \o Decimal(i),
                      first \o last \o Decimal(i),
                      first \o dot \o last \o underscore \o Decimal(i),
                      first \o underscore \o last \o underscore \o Decimal(i) } :
                    i \in 1..19}

\* the set variations of generate_username_variations, before it is sorted
UsernameVariationSet(base_username, first_name, last_name, current_year) ==
    { base_username, Lower(base_username), Upper(base_username),
      Capitalize(base_username) }
    \cup UNION {{ base_username \o Decimal(i),
                  base_username \o <<"_">> \o Decimal(i),
                  base_username \o <<".">> \o Decimal(i),
                  base_username \o <<"-">> \o Decimal(i) } : i \in 1..99}
    \cup UNION {{ base_username \o Decimal(year),
                  base_username \o <<"_">> \o Decimal(year),
                  Decimal(year) \o base_username,
                  Decimal(year) \o <<"_">> \o base_username } :
                year \in 1990..current_year}
    \cup { Replace(Lower(base_username), cs[1], cs[2]) :
             cs \in {x \in CharSubs : x[1] \in Range(Lower(base_username))} }
    \cup (IF first_name # <<>> /\ last_name # <<>>
          THEN _generate_name_variations(first_name, last_name) ELSE {})

\* sorted() orders str by code points.  A string of at most twelve characters
\* is held as three integers of four code points each, which order as the
\* strings do (a missing character counts as 0, below every code point)
CodeAt(s, i) == IF i <= Len(s) THEN Ord(s[i]) ELSE 0

SortKey(s) ==
    [chunk \in 1..3 |->
        LET at == 4 * (chunk - 1)
        IN  ((CodeAt(s, at + 1) * 128 + CodeAt(s, at + 2)) * 128
             + CodeAt(s, at + 3)) * 128 + CodeAt(s, at + 4)]

KeyLess(a, b) ==
    \/ a[1] < b[1]
    \/ a[1] = b[1] /\ (a[2] < b[2] \/ (a[2] = b[2] /\ a[3] < b[3]))

\* sorted(S)[:n]: each string of S with the number of strings of S below it;
\* those with fewer than n below them, in that order
FirstSorted(S, n) ==
    LET keyed == {<<SortKey(v), v>> : v \in S}
        ranked == {<<Cardinality({q \in keyed : KeyLess(q[1], p[1])}), p[2]>> :
                      p \in keyed}
        kept == {r \in ranked : r[1] < n}
    IN  [k \in 1..Cardinality(kept) |-> (CHOOSE r \in kept : r[1] = k - 1)[2]]

generate_username_variations(base_username, first_name, last_name, current_year) ==
    FirstSorted(UsernameVariationSet(base_username, first_name, last_name,
                                     current_year), VariationLimit)

\* the suffixes of _generate_username_variations
Suffixes ==
    { <<"o", "f", "f", "i", "c", "i", "a", "l">>, <<"r", "e", "a", "l">>,
      <<"o", "r", "i", "g", "i", "n", "a", "l">>, <<"n", "e", "w">>,
      <<"b", "a", "c", "k", "u", "p">>, <<"2", "0", "2", "4">>,
      <<"2", "0", "2", "3">> }

\* the elements of the list variations of _generate_username_variations
CorrelatorVariationSet(username) ==
    UNION {{ username \o Decimal(i), username \o <<"_">> \o Decimal(i),
             username \o <<".">> \o Decimal(i), Decimal(i) \o username } :
           i \in 1..99}
    \cup UNION {{ username \o <<"_">> \o suffix, username \o <<".">> \o suffix,
                  username \o suffix } : suffix \in Suffixes}
    \cup { Replace(username, "_", "."), Replace(username, ".", "_"),
           <<"_">> \o username, username \o <<"_">>,
           <<".">> \o username, username \o <<".">> }

\* list(set(variations)): the elements once each; the order of a set of str is
\* not specified, and the list is held here in sorted order
_generate_username_variations(username) ==
    FirstSorted(CorrelatorVariationSet(username),
                Cardinality(CorrelatorVariationSet(username)))

-----------------------------------------------------------------------------
(* CrossPlatformCorrelator._calculate_username_similarity:                   *)
(* difflib.SequenceMatcher(None, a, b).ratio() on the lower-cased usernames  *)

\* a[i .. i+k-1] = b[j .. j+k-1]
IsBlock(a, b, i, j, k) == \A t \in 0..(k - 1) : a[i + t] = b[j + t]

\* the blocks of a[alo..ahi] and b[blo..bhi] that match
MatchingBlocksIn(a, b, alo, ahi, blo, bhi) ==
    {c \in (alo..ahi) \X (blo..bhi) \X (1..(ahi - alo + 1)) :
        /\ c[1] + c[3] - 1 <= ahi
        /\ c[2] + c[3] - 1 <= bhi
        /\ IsBlock(a, b, c[1], c[2], c[3])}

\* find_longest_match without junk: the longest block, of the longest the one
\* that starts earliest in a, of those the one that starts earliest in b
find_longest_match(a, b, alo, ahi, blo, bhi) ==
    LET blocks == MatchingBlocksIn(a, b, alo, ahi, blo, bhi)
    IN  IF blocks = {} THEN <<alo, blo, 0>>
        ELSE CHOOSE c \in blocks : \A d \in blocks :
                \/ c[3] > d[3]
                \/ c[3] = d[3] /\ c[1] < d[1]
                \/ c[3] = d[3] /\ c[1] = d[1] /\ c[2] <= d[2]

\* get_matching_blocks: the longest block, then the same to its left and to
\* its right; the sum of the sizes of the blocks
RECURSIVE MatchedSize(_, _, _, _, _, _)
MatchedSize(a, b, alo, ahi, blo, bhi) ==
    IF alo > ahi \/ blo > bhi THEN 0
    ELSE LET x == find_longest_match(a, b, alo, ahi, blo, bhi)
         IN  IF x[3] = 0 THEN 0
             ELSE x[3]
                  + MatchedSize(a, b, alo, x[1] - 1, blo, x[2] - 1)
                  + MatchedSize(a, b, x[1] + x[3], ahi, x[2] + x[3], bhi)

\* ratio(): 2.0 * matches / length, and 1.0 when both sequences are empty
Ratio(a, b) ==
    IF Len(a) + Len(b) = 0 THEN <<1, 1>>
    ELSE <<2 * MatchedSize(a, b, 1, Len(a), 1, Len(b)), Len(a) + Len(b)>>

_calculate_username_similarity(username1, username2) ==
    Ratio(Lower(username1), Lower(username2))

-----------------------------------------------------------------------------
(* Values before any operation has run *)

NoText == <<>>
NoBatch == <<>>
NoResult == [total_matches |-> 0, matches |-> <<>>, cross_platform_users |-> <<>>]
NoAnalyses == [k \in {} |-> 0]
NoScore == [overall_confidence |-> <<0, 1>>, confidence_factors |-> <<>>,
            identity_likelihood |-> "", matching_indicators |-> 0]
NoOutcome == <<>>
NoStylePair == <<>>
NoOptions == <<>>

-----------------------------------------------------------------------------
(* Normalization of one string *)

NormAlphabet == {"a", "B", "1", ".", "_", " ", "!", "\n"}

StringsOver(alphabet, n) == UNION {[1..k -> alphabet] : k \in 0..n}

InitNorm ==
    /\ pc = "start"
    /\ text \in StringsOver(NormAlphabet, MaxStrLen)
    /\ normalized = NoText
    /\ profiles_data = NoBatch
    /\ result = NoResult
    /\ previous = NoResult
    /\ all_analyses = NoAnalyses
    /\ score = NoScore
    /\ prev_score = NoScore
    /\ outcome = NoOutcome
    /\ features = NoStylePair
    /\ options = NoOptions
    /\ username_patterns = __init__

NormalizeUsername ==
    /\ pc = "start"
    /\ normalized' = _normalize_username(text)
    /\ pc' = "_normalize_username"
    /\ UNCHANGED <<text, profiles_data, result, previous, all_analyses, score,
                   prev_score, outcome, features, options, username_patterns>>

NormalizeName ==
    /\ pc = "start"
    /\ normalized' = _normalize_name(text)
    /\ pc' = "_normalize_name"
    /\ UNCHANGED <<text, profiles_data, result, previous, all_analyses, score,
                   prev_score, outcome, features, options, username_patterns>>

NextNorm == NormalizeUsername \/ NormalizeName

SpecNorm == InitNorm /\ [][NextNorm]_vars

\* C5: normalization is idempotent: normalizing the value a normalizer returned
\* returns that value again, for _normalize_username and for _normalize_name.
C5_NormalizationIdempotent ==
    /\ pc = "_normalize_username" => _normalize_username(normalized) = normalized
    /\ pc = "_normalize_name" => _normalize_name(normalized) = normalized

-----------------------------------------------------------------------------
(* Batches of profile records *)

Instagram == <<"i", "n", "s", "t", "a", "g", "r", "a", "m">>
Twitter == <<"t", "w", "i", "t", "t", "e", "r">>

ProfileData(platform, username, display_name, biography) ==
    [platform |-> platform,
     profile |-> [username |-> username, display_name |-> display_name,
                  biography |-> biography]]

Repeat(c, n) == [i \in 1..n |-> c]

\* biographies longer than 20 characters: plain text, the same text in another
\* case with punctuation, a URL only, a hashtag only
PlainBio == <<"c", "h", "e", "f", " ">> \o Repeat("a", 17)
ShoutedBio == <<"C", "h", "e", "f", "!", " ">> \o Repeat("A", 17)
UrlBio == <<"h", "t", "t", "p", ":", "/", "/">> \o Repeat("x", 15)
HashtagBio == <<"#">> \o Repeat("a", 21)

RecordPool ==
    { ProfileData(Instagram, <<"a", "b">>, <<"x", " ", "y">>, <<>>),
      ProfileData(Twitter, <<"A", ".", "b", "1">>, <<>>, <<>>),
      ProfileData(Twitter, <<"c", "d">>, <<"X", " ", " ", "y", "!">>, <<>>),
      ProfileData(Instagram, <<"e">>, <<"!", "!">>, <<>>),
      ProfileData(Twitter, <<"f">>, <<"!">>, <<>>),
      ProfileData(Instagram, <<"1">>, <<>>, UrlBio),
      ProfileData(Twitter, <<"2">>, <<>>, HashtagBio),
      ProfileData(Instagram, <<"g">>, <<>>, PlainBio),
      ProfileData(Twitter, <<>>, <<>>, ShoutedBio) }

Batches == UNION {[1..n -> RecordPool] : n \in 0..MaxBatch}

-----------------------------------------------------------------------------
(* Running find_cross_platform_accounts on a batch, and again on the same    *)
(* records presented in another order                                       *)

InitMatch ==
    /\ pc = "start"
    /\ text = NoText
    /\ normalized = NoText
    /\ profiles_data \in Batches
    /\ result = NoResult
    /\ previous = NoResult
    /\ all_analyses = NoAnalyses
    /\ score = NoScore
    /\ prev_score = NoScore
    /\ outcome = NoOutcome
    /\ features = NoStylePair
    /\ options = NoOptions
    /\ username_patterns = __init__

FindCrossPlatformAccounts ==
    /\ pc = "start"
    /\ result' = find_cross_platform_accounts(profiles_data)
    /\ pc' = "find_cross_platform_accounts"
    /\ UNCHANGED <<text, normalized, profiles_data, previous, all_analyses, score,
                   prev_score, outcome, features, options, username_patterns>>

SwapAdjacent(batch, i) ==
    [j \in 1..Len(batch) |->
        IF j = i THEN batch[i + 1] ELSE IF j = i + 1 THEN batch[i] ELSE batch[j]]

\* the caller exchanges two neighbouring records and runs the operation again
FindAgainReordered ==
    /\ pc \in {"find_cross_platform_accounts", "find_again"}
    /\ \E i \in 1..(Len(profiles_data) - 1) :
          /\ profiles_data[i] # profiles_data[i + 1]
          /\ profiles_data' = SwapAdjacent(profiles_data, i)
    /\ previous' = result
    /\ result' = find_cross_platform_accounts(profiles_data')
    /\ pc' = "find_again"
    /\ UNCHANGED <<text, normalized, all_analyses, score, prev_score, outcome,
                   features, options, username_patterns>>

\* the caller hands the result to generate_identity_confidence_score as the
\* analysis 'cross_platform_matches'
ScoreMatches ==
    /\ pc = "find_cross_platform_accounts"
    /\ all_analyses' = [cross_platform_matches |-> result]
    /\ score' = generate_identity_confidence_score(all_analyses')
    /\ pc' = "scored_matches"
    /\ UNCHANGED <<text, normalized, profiles_data, result, previous, prev_score,
                   outcome, features, options, username_patterns>>

NextMatch == FindCrossPlatformAccounts \/ FindAgainReordered \/ ScoreMatches

SpecMatch == InitMatch /\ [][NextMatch]_vars

Ran == pc \in {"find_cross_platform_accounts", "find_again"}

\* the set of records of a match or of a consolidated entry
Members(profiles) == {profiles[i] : i \in 1..Len(profiles)}

Entries(r) == {r.cross_platform_users[i] : i \in 1..Len(r.cross_platform_users)}
Matches(r) == {r.matches[i] : i \in 1..Len(r.matches)}

\* (platform, username) is unique within the batch
UniqueIdentities(batch) ==
    \A i, j \in 1..Len(batch) :
        (/\ batch[i].platform = batch[j].platform
         /\ batch[i].profile.username = batch[j].profile.username) => i = j

\* the records at positions i and j of the batch are in match m together
Together(m, batch, i, j) ==
    /\ <<batch[i].platform, batch[i]>> \in Members(m.profiles)
    /\ <<batch[j].platform, batch[j]>> \in Members(m.profiles)

\* C1: cluster membership is transitively closed: two matches with a record in
\* common have all their records in one entry of cross_platform_users (shown
\* on batches of distinct identities).
C1_ClusterTransitive ==
    (Ran /\ UniqueIdentities(profiles_data)) => \A m1, m2 \in Matches(result) :
              Members(m1.profiles) \cap Members(m2.profiles) # {}
              => \E e \in Entries(result) :
                    Members(m1.profiles) \cup Members(m2.profiles)
                        \subseteq Members(e.profiles)

\* C2: in a batch with unique (platform, username), every match and every
\* entry of cross_platform_users has at least two distinct member records.
C2_NoSingletonClusters ==
    (Ran /\ UniqueIdentities(profiles_data)) =>
        /\ \A m \in Matches(result) : Cardinality(Members(m.profiles)) >= 2
        /\ \A e \in Entries(result) : Cardinality(Members(e.profiles)) >= 2

\* a batch of three distinct identities gave one entry of two members, the
\* third record being in no entry
C2_Witness ==
    /\ Ran /\ UniqueIdentities(profiles_data) /\ Len(profiles_data) = 3
    /\ Len(result.cross_platform_users) = 1
    /\ Cardinality(Members(result.cross_platform_users[1].profiles)) = 2
    /\ \E i \in 1..3 : <<profiles_data[i].platform, profiles_data[i]>>
                          \notin Members(result.cross_platform_users[1].profiles)

\* the candidate key of a record in a pass normalizes to the empty string
EmptyKey(pass, profile_data) ==
    CASE pass = "username" ->
            _normalize_username(profile_data.profile.username) = <<>>
      [] pass = "display_name" ->
            _normalize_name(profile_data.profile.display_name) = <<>>
      [] pass = "biography" ->
            _get_bio_hash(profile_data.profile.biography) = Md5Hex(<<>>, 8)

\* C6: an empty candidate key never participates in blocking: no match of any
\* of the three passes has a member whose key in that pass is empty (shown on
\* batches of distinct identities).
C6_EmptyKeyNeverBlocks ==
    (Ran /\ UniqueIdentities(profiles_data)) => \A m \in Matches(result) : \A p \in Members(m.profiles) :
              ~EmptyKey(m.match_type, p[2])

\* C7: two records with the same non-empty normalized username are together in
\* at least one match.
C7_BlockingRecall ==
    Ran => \A i, j \in 1..Len(profiles_data) :
              (/\ i # j
               /\ _normalize_username(profiles_data[i].profile.username) # <<>>
               /\ _normalize_username(profiles_data[i].profile.username)
                    = _normalize_username(profiles_data[j].profile.username))
              => \E m \in Matches(result) : Together(m, profiles_data, i, j)

\* two records whose usernames differ as given but agree once normalized are
\* in a username match
C7_Witness ==
    /\ Ran
    /\ \E i, j \in 1..Len(profiles_data) :
          /\ Lower(profiles_data[i].profile.username)
                # Lower(profiles_data[j].profile.username)
          /\ _normalize_username(profiles_data[i].profile.username)
                = _normalize_username(profiles_data[j].profile.username)
          /\ \E m \in Matches(result) :
                m.match_type = "username" /\ Together(m, profiles_data, i, j)

\* the two records are filed under one key by at least one of the three passes
SharesKey(a, b) ==
    \/ /\ _normalize_username(Lower(a.profile.username)) # <<>>
       /\ _normalize_username(Lower(a.profile.username))
            = _normalize_username(Lower(b.profile.username))
    \/ /\ a.profile.display_name # <<>> /\ b.profile.display_name # <<>>
       /\ _normalize_name(Lower(a.profile.display_name))
            = _normalize_name(Lower(b.profile.display_name))
    \/ /\ Len(a.profile.biography) > BioMinLen
       /\ Len(b.profile.biography) > BioMinLen
       /\ _get_bio_hash(Lower(a.profile.biography))
            = _get_bio_hash(Lower(b.profile.biography))

\* C8: two records that share no key in any of the three passes are never
\* together in a match nor in an entry of cross_platform_users.
C8_NoSharedKeyNoMatch ==
    Ran => /\ \A m \in Matches(result) : \A p, q \in Members(m.profiles) :
                SharesKey(p[2], q[2])
           /\ \A e \in Entries(result) : \A p, q \in Members(e.profiles) :
                SharesKey(p[2], q[2])

\* a batch holds two records that share no key, beside a match
C8_Witness ==
    /\ Ran
    /\ result.total_matches > 0
    /\ \E i, j \in 1..Len(profiles_data) :
          /\ ~SharesKey(profiles_data[i], profiles_data[j])
          /\ \A m \in Matches(result) : ~Together(m, profiles_data, i, j)
          /\ \E m \in Matches(result) :
                <<profiles_data[i].platform, profiles_data[i]>> \in Members(m.profiles)

\* the user_id of each entry with the platform-qualified identifiers of its members
ClusterIds(r) ==
    {<<e.user_id, {QualifiedId(p) : p \in Members(e.profiles)}>> : e \in Entries(r)}

\* C9: the same records presented in another order give the same user_id
\* values, each attached to the same set of member identifiers; with distinct
\* identities, entries of the same member identifiers have the same user_id.
C9_ClusterIdOrderIndependent ==
    pc = "find_again" =>
        /\ ClusterIds(previous) = ClusterIds(result)
        /\ UniqueIdentities(profiles_data) =>
              \A c1 \in ClusterIds(previous), c2 \in ClusterIds(result) :
                  c1[2] = c2[2] => c1[1] = c2[1]

\* the second presentation listed the members of an entry in another order
C9_Witness ==
    /\ pc = "find_again"
    /\ Len(result.cross_platform_users) > 0
    /\ Len(previous.cross_platform_users) > 0
    /\ result.cross_platform_users[1].profiles
          # previous.cross_platform_users[1].profiles
    /\ result.cross_platform_users[1].user_id = previous.cross_platform_users[1].user_id

\* C12: a pair for which no signal is computed has confidence 0 and the
\* label 'Very Low', and is dropped: it does not appear in cross_platform_users.
C12_NoSignalPairDropped ==
    (/\ pc = "scored_matches"
     /\ Len(profiles_data) = 2 /\ UniqueIdentities(profiles_data)
     /\ score.matching_indicators = 0)
    => /\ RatEq(score.overall_confidence, <<0, 1>>)
       /\ score.identity_likelihood = "Very Low"
       /\ result.cross_platform_users = <<>>

-----------------------------------------------------------------------------
(* Scoring a set of analyses, and scoring it again with one more indicator   *)

MatchTypes == {"username", "display_name", "biography"}

\* the part of a find_cross_platform_accounts result the score reads
MatchLists ==
    UNION {[1..n -> [match_type : MatchTypes]] : n \in 0..MaxMatches}

\* the list an analysis returns, held by its length
ListField(key) ==
    CASE key = "writing_style" -> "style_matches"
      [] key = "behavioral_correlation" -> "behavioral_correlations"
      [] key = "content_overlap" -> "cross_posted_content"
      [] key = "timing_correlation" -> "timing_correlations"

AnalysisValues(key) ==
    IF key = "cross_platform_matches"
    THEN {[matches |-> ms] : ms \in MatchLists}
    ELSE {[f \in {ListField(key)} |-> n] : n \in 0..MaxMatches}

\* a key of all_analyses is absent (<<>>) or holds a value (<<v>>)
Optional(key) == {<<>>} \cup {<<v>> : v \in AnalysisValues(key)}

KeySet == {AnalysisKeys[i] : i \in 1..Len(AnalysisKeys)}

AnalysesOf(opt) == [k \in {q \in KeySet : opt[q] # <<>>} |-> opt[k][1]]

AllAnalyses ==
    {AnalysesOf([cross_platform_matches |-> o1, writing_style |-> o2,
                 behavioral_correlation |-> o3, content_overlap |-> o4,
                 timing_correlation |-> o5]) :
        o1 \in Optional("cross_platform_matches"), o2 \in Optional("writing_style"),
        o3 \in Optional("behavioral_correlation"), o4 \in Optional("content_overlap"),
        o5 \in Optional("timing_correlation")}

\* an analysis of the given kind holding one matching item
OneMatch(key) ==
    IF key = "cross_platform_matches"
    THEN [matches |-> <<[match_type |-> "username"]>>]
    ELSE [f \in {ListField(key)} |-> 1]

WithAnalysis(analyses, key, value) ==
    [k \in DOMAIN analyses \cup {key} |-> IF k = key THEN value ELSE analyses[k]]

InitFuse ==
    /\ pc = "start"
    /\ text = NoText
    /\ normalized = NoText
    /\ profiles_data = NoBatch
    /\ result = NoResult
    /\ previous = NoResult
    /\ all_analyses \in AllAnalyses
    /\ score = NoScore
    /\ prev_score = NoScore
    /\ outcome = NoOutcome
    /\ features = NoStylePair
    /\ options = NoOptions
    /\ username_patterns = __init__

GenerateIdentityConfidenceScore ==
    /\ pc = "start"
    /\ score' = generate_identity_confidence_score(all_analyses)
    /\ pc' = "generate_identity_confidence_score"
    /\ UNCHANGED <<text, normalized, profiles_data, result, previous, all_analyses,
                   prev_score, outcome, features, options, username_patterns>>

\* one more analysis reports a match, and the score is generated again
AddIndicator ==
    /\ pc \in {"generate_identity_confidence_score", "indicator_added"}
    /\ \E key \in KeySet :
          /\ IndicatorCount(all_analyses, key) = 0
          /\ all_analyses' = WithAnalysis(all_analyses, key, OneMatch(key))
    /\ prev_score' = score
    /\ score' = generate_identity_confidence_score(all_analyses')
    /\ pc' = "indicator_added"
    /\ UNCHANGED <<text, normalized, profiles_data, result, previous, outcome,
                   features, options, username_patterns>>

NextFuse == GenerateIdentityConfidenceScore \/ AddIndicator

SpecFuse == InitFuse /\ [][NextFuse]_vars

Scored == pc \in {"generate_identity_confidence_score", "indicator_added"}

\* C4: fusion is monotone: one more matching indicator never decreases the
\* overall confidence.
C4_FusionMonotone ==
    pc = "indicator_added"
        => RatGeq(score.overall_confidence, prev_score.overall_confidence)

\* the weighted average of the scores of the computed signals, the weights
\* renormalized over the computed subset, scaled to [0,100]; the score of a
\* matching indicator is 1
WeightedAverage(confidence_factors) ==
    IF confidence_factors = <<>> THEN <<0, 1>>
    ELSE <<100 * SumWeights(confidence_factors) * 1, SumWeights(confidence_factors)>>

\* C10: the fused confidence is the weighted average of the scores of the
\* computed signals, the base weights renormalized to sum to 1 over them, scaled
\* to [0,100]; it lies in [0,100] and is maximal when every score is 1.0.
C10_WeightedAverage ==
    Scored =>
        /\ RatEq(score.overall_confidence, WeightedAverage(score.confidence_factors))
        /\ RatGeq(score.overall_confidence, <<0, 1>>)
        /\ RatGeq(<<100, 1>>, score.overall_confidence)

\* the place of an indicator in the order of the signal weights: content
\* overlap, identifier similarity, behavioral correlation, stylometric
\* similarity, temporal co-occurrence
SignalRank(indicator) ==
    CASE indicator = "content_overlap" -> 5
      [] indicator = "username_match" -> 4
      [] indicator = "behavioral_pattern" -> 3
      [] indicator = "writing_style" -> 2
      [] indicator = "timing_pattern" -> 1

\* C21: the fixed weights of the signals are strictly ordered content overlap >
\* identifier similarity > behavioral correlation > stylometric similarity >
\* temporal co-occurrence: of two factors of a score, the one of the signal
\* placed higher carries the strictly greater weight.
C21_WeightsStrictlyOrdered ==
    Scored =>
        \A i, j \in 1..Len(score.confidence_factors) :
            SignalRank(score.confidence_factors[i][1])
                > SignalRank(score.confidence_factors[j][1])
            => score.confidence_factors[i][2] > score.confidence_factors[j][2]

\* C26: the overall confidence is the unweighted mean of the constants of the
\* indicators present: exactly 0 without an indicator, in [0.6, 0.9] otherwise,
\* so the likelihood is 'Very Low', 'High' or 'Very High', never 'Medium' or
\* 'Low'.
C26_ConfidenceIsMeanOfConstants ==
    Scored =>
        LET factors == score.confidence_factors
            confidence == score.overall_confidence
        IN  /\ {factors[i] : i \in 1..Len(factors)} =
                   {Factor(key) : key \in {k \in KeySet :
                                              IndicatorCount(all_analyses, k) > 0}}
            /\ factors = <<>> => RatEq(confidence, <<0, 1>>)
            /\ factors # <<>> =>
                   /\ RatEq(confidence, <<SumWeights(factors), 100 * Len(factors)>>)
                   /\ RatGeq(confidence, Hundredths(60))
                   /\ RatGeq(Hundredths(90), confidence)
            /\ score.identity_likelihood \in {"Very Low", "High", "Very High"}

\* three indicators present, of mean 0.7: labelled 'High'
C26_Witness ==
    /\ Scored
    /\ Len(score.confidence_factors) = 3
    /\ RatEq(score.overall_confidence, Hundredths(70))
    /\ score.identity_likelihood = "High"

-----------------------------------------------------------------------------
(* The likelihood label of one confidence score *)

InitBand ==
    /\ pc = "start"
    /\ text = NoText
    /\ normalized = NoText
    /\ profiles_data = NoBatch
    /\ result = NoResult
    /\ previous = NoResult
    /\ all_analyses = NoAnalyses
    /\ score \in {[NoScore EXCEPT !.overall_confidence = Hundredths(n)] :
                     n \in 0..MaxHundredths}
    /\ prev_score = NoScore
    /\ outcome = NoOutcome
    /\ features = NoStylePair
    /\ options = NoOptions
    /\ username_patterns = __init__

GetLikelihoodLabel ==
    /\ pc = "start"
    /\ score' = [score EXCEPT !.identity_likelihood =
                                 _get_likelihood_label(score.overall_confidence)]
    /\ pc' = "_get_likelihood_label"
    /\ UNCHANGED <<text, normalized, profiles_data, result, previous, all_analyses,
                   prev_score, outcome, features, options, username_patterns>>

NextBand == GetLikelihoodLabel

SpecBand == InitBand /\ [][NextBand]_vars

\* the label is the band of the confidence for the four thresholds t1 > t2 >
\* t3 > t4, each an inclusive lower bound
BandsBy(label, confidence, t1, t2, t3, t4) ==
    /\ label = "Very High" <=> RatGeq(confidence, t1)
    /\ label = "High" <=> (RatGeq(confidence, t2) /\ ~RatGeq(confidence, t1))
    /\ label = "Medium" <=> (RatGeq(confidence, t3) /\ ~RatGeq(confidence, t2))
    /\ label = "Low" <=> (RatGeq(confidence, t4) /\ ~RatGeq(confidence, t3))
    /\ label = "Very Low" <=> ~RatGeq(confidence, t4)

-----------------------------------------------------------------------------
(* The analyses of a pair of records, run on the pair and on the pair swapped *)

PostDates == {[kind |-> "none", hours |-> 0], [kind |-> "unparsable", hours |-> 0],
              [kind |-> "iso", hours |-> 0]}

PostLists == UNION {[1..n -> [date : PostDates]] : n \in 0..MaxPosts}

PairUsernames == {<<"a", "b">>, <<"c", "d">>}

PairRecords ==
    {[platform |-> pf,
      profile |-> [username |-> u, display_name |-> <<>>, biography |-> <<>>],
      posts |-> ps] : pf \in {Instagram, Twitter}, u \in PairUsernames, ps \in PostLists}

\* find_cross_platform_accounts and analyze_timing_correlation on the batch,
\* then generate_identity_confidence_score on their results
AnalyzeAndScore(batch) ==
    LET matches == find_cross_platform_accounts(batch)
        timing == analyze_timing_correlation(batch)
    IN  IF timing.raised # "" THEN Raised(timing.raised)
        ELSE Returned(generate_identity_confidence_score(
                 [cross_platform_matches |-> matches,
                  timing_correlation |-> timing.value]))

InitPair ==
    /\ pc = "start"
    /\ text = NoText
    /\ normalized = NoText
    /\ profiles_data \in [1..2 -> PairRecords]
    /\ result = NoResult
    /\ previous = NoResult
    /\ all_analyses = NoAnalyses
    /\ score = NoScore
    /\ prev_score = NoScore
    /\ outcome = NoOutcome
    /\ features = NoStylePair
    /\ options = NoOptions
    /\ username_patterns = __init__

AnalyzePair ==
    /\ pc = "start"
    /\ outcome' = <<AnalyzeAndScore(profiles_data)>>
    /\ pc' = "analyzed"
    /\ UNCHANGED <<text, normalized, profiles_data, result, previous, all_analyses,
                   score, prev_score, features, options, username_patterns>>

AnalyzePairSwapped ==
    /\ pc = "analyzed"
    /\ profiles_data' = <<profiles_data[2], profiles_data[1]>>
    /\ outcome' = Append(outcome, AnalyzeAndScore(profiles_data'))
    /\ pc' = "analyzed_swapped"
    /\ UNCHANGED <<text, normalized, result, previous, all_analyses, score,
                   prev_score, features, options, username_patterns>>

NextPair == AnalyzePair \/ AnalyzePairSwapped

SpecPair == InitPair /\ [][NextPair]_vars

\* C3: fused confidence is symmetric: the analyses and the score on [A, B] and
\* on [B, A] yield the same overall confidence and the same likelihood band.
C3_FusedConfidenceSymmetric ==
    pc = "analyzed_swapped" =>
        /\ outcome[1].raised = "" /\ outcome[2].raised = ""
        /\ RatEq(outcome[1].value.overall_confidence,
                 outcome[2].value.overall_confidence)
        /\ outcome[1].value.identity_likelihood = outcome[2].value.identity_likelihood

-----------------------------------------------------------------------------
(* The signals of a pair of records: behavioral correlation, timing          *)
(* correlation and style similarity                                         *)

Post(date, caption, likes) == [date |-> date, caption |-> caption, likes |-> likes]

Iso(hours) == [kind |-> "iso", hours |-> hours]
Unparsable == [kind |-> "unparsable", hours |-> 0]
NoDate == [kind |-> "none", hours |-> 0]

\* Monday 00:00, Sunday 23:00, Monday 02:00 and Monday 03:00; no date; a date
\* that does not parse
SignalPosts ==
    { Post(Iso(0), <<>>, 0),
      Post(Iso(167), Repeat("a", 30), 5),
      Post(Iso(2), Repeat("a", 30), 0),
      Post(Iso(3), <<>>, 0),
      Post(NoDate, <<>>, 0),
      Post(Unparsable, Repeat("a", 30), 0) }

SignalPostLists == UNION {[1..n -> SignalPosts] : n \in 0..MaxPosts}

SignalRecord(platform, posts) ==
    [platform |-> platform,
     profile |-> [username |-> <<"a">>, display_name |-> <<>>, biography |-> <<>>],
     posts |-> posts]

\* style features: the ratios of _extract_writing_style_features, none negative
StyleKeys == {"avg_word_length", "exclamation_ratio"}
StyleValues == {<<0, 1>>, <<1, 2>>, <<3, 1>>}
StyleFeatures == UNION {[keys -> StyleValues] : keys \in SUBSET StyleKeys}

InitSignal ==
    /\ pc = "start"
    /\ text = NoText
    /\ normalized = NoText
    /\ result = NoResult
    /\ previous = NoResult
    /\ all_analyses = NoAnalyses
    /\ score = NoScore
    /\ prev_score = NoScore
    /\ outcome = NoOutcome
    /\ \/ /\ profiles_data \in
                {<<SignalRecord(Instagram, ps1), SignalRecord(Twitter, ps2)>> :
                    ps1 \in SignalPostLists, ps2 \in SignalPostLists}
          /\ features = NoStylePair
       \/ /\ profiles_data = NoBatch
          /\ features \in StyleFeatures \X StyleFeatures
    /\ options = NoOptions
    /\ username_patterns = __init__

CalculateBehavioralCorrelation ==
    /\ pc = "start" /\ profiles_data # NoBatch
    /\ outcome' = <<Returned(_calculate_behavioral_correlation(
                        _extract_behavioral_features(profiles_data[1].posts),
                        _extract_behavioral_features(profiles_data[2].posts)))>>
    /\ pc' = "_calculate_behavioral_correlation"
    /\ UNCHANGED <<text, normalized, profiles_data, result, previous, all_analyses,
                   score, prev_score, features, options, username_patterns>>

CalculateTimingCorrelation ==
    /\ pc = "start" /\ profiles_data # NoBatch
    /\ outcome' = <<_calculate_timing_correlation(PostTimes(profiles_data[1].posts),
                                                  PostTimes(profiles_data[2].posts))>>
    /\ pc' = "_calculate_timing_correlation"
    /\ UNCHANGED <<text, normalized, profiles_data, result, previous, all_analyses,
                   score, prev_score, features, options, username_patterns>>

CalculateStyleSimilarity ==
    /\ pc = "start" /\ features # NoStylePair
    /\ outcome' = <<Returned(_calculate_style_similarity(features[1], features[2]))>>
    /\ pc' = "_calculate_style_similarity"
    /\ UNCHANGED <<text, normalized, profiles_data, result, previous, all_analyses,
                   score, prev_score, features, options, username_patterns>>

AnalyzeBehavioralCorrelation ==
    /\ pc = "start" /\ profiles_data # NoBatch
    /\ outcome' = <<Returned(analyze_behavioral_correlation(profiles_data))>>
    /\ pc' = "analyze_behavioral_correlation"
    /\ UNCHANGED <<text, normalized, profiles_data, result, previous, all_analyses,
                   score, prev_score, features, options, username_patterns>>

ExtractBehavioralFeatures ==
    /\ pc = "start" /\ profiles_data # NoBatch
    /\ outcome' = <<Returned(_extract_behavioral_features(profiles_data[1].posts))>>
    /\ pc' = "_extract_behavioral_features"
    /\ UNCHANGED <<text, normalized, profiles_data, result, previous, all_analyses,
                   score, prev_score, features, options, username_patterns>>

NextSignal ==
    \/ CalculateBehavioralCorrelation
    \/ CalculateTimingCorrelation
    \/ CalculateStyleSimilarity
    \/ AnalyzeBehavioralCorrelation
    \/ ExtractBehavioralFeatures

SpecSignal == InitSignal /\ [][NextSignal]_vars

SignalCalculated ==
    pc \in {"_calculate_behavioral_correlation", "_calculate_timing_correlation",
            "_calculate_style_similarity"}

\* C13: every signal score lies in [0,1]: each of _calculate_style_similarity,
\* _calculate_behavioral_correlation and _calculate_timing_correlation returns
\* a value that is at least 0 and at most 1.
C13_SignalScoreInUnitInterval ==
    (SignalCalculated /\ outcome[1].raised = "") =>
        /\ RatGeq(outcome[1].value, <<0, 1>>)
        /\ RatGeq(<<1, 1>>, outcome[1].value)

\* the posts of a profile without those whose date string fails to parse
WithoutUnparsable(posts) ==
    SelectSeq(posts, LAMBDA post : post.date.kind # "unparsable")

\* C16: a post whose date string fails to parse is excluded from every temporal
\* and behavioral aggregate of its profile: the hour and weekday distributions
\* and the mean content length the extraction returns are those of the
\* profile's other posts, and the profile is still processed.
C16_UnparsableDateExcluded ==
    (pc = "_extract_behavioral_features"
        /\ WithoutUnparsable(profiles_data[1].posts) # <<>>) =>
        LET extracted == outcome[1].value
            others == _extract_behavioral_features(
                          WithoutUnparsable(profiles_data[1].posts))
        IN  /\ outcome[1].raised = ""
            /\ extracted # NoFeatures
            /\ extracted.hour_distribution = others.hour_distribution
            /\ extracted.day_distribution = others.day_distribution
            /\ RatEq(extracted.avg_content_length, others.avg_content_length)

\* the post pairs, one time of each profile, at most two hours apart
SynchronizedPairs(times1, times2) ==
    {ij \in (1..Len(times1)) \X (1..Len(times2)) :
        Abs(times1[ij[1]] - times2[ij[2]]) <= 2}

\* C19: the temporal co-occurrence score of two profiles that both have posts
\* with a timestamp is the number of post pairs at most 2 hours apart (exactly
\* 2 hours included) divided by the smaller of the two counts of posts with a
\* timestamp.
C19_CoOccurrenceScore ==
    LET times1 == PostTimes(profiles_data[1].posts)
        times2 == PostTimes(profiles_data[2].posts)
    IN  (pc = "_calculate_timing_correlation" /\ times1 # <<>> /\ times2 # <<>>) =>
            /\ outcome[1].raised = ""
            /\ RatEq(outcome[1].value,
                     <<Cardinality(SynchronizedPairs(times1, times2)),
                       IF Len(times1) < Len(times2) THEN Len(times1) ELSE Len(times2)>>)

\* C25: the timing correlation is symmetric in its arguments: for the post
\* times of any two profiles, the call and the call with the two lists
\* exchanged return the same value.
C25_TimingCorrelationSymmetric ==
    pc = "_calculate_timing_correlation" =>
        LET swapped == _calculate_timing_correlation(
                           PostTimes(profiles_data[2].posts),
                           PostTimes(profiles_data[1].posts))
        IN  /\ outcome[1].raised = ""
            /\ swapped.raised = ""
            /\ RatEq(outcome[1].value, swapped.value)

\* C20: the behavioral correlation averages only the computable sub-scores:
\* when one of two profiles with posts has no post with a parseable timestamp,
\* the posting-hour and posting-weekday sub-scores do not enter the average,
\* which is then the content-length sub-score alone.
C20_OnlyComputableSubScores ==
    LET posts1 == profiles_data[1].posts
        posts2 == profiles_data[2].posts
    IN  (/\ pc = "_calculate_behavioral_correlation"
         /\ posts1 # <<>> /\ posts2 # <<>>
         /\ (PostTimes(posts1) = <<>> \/ PostTimes(posts2) = <<>>)) =>
            RatEq(outcome[1].value,
                  LengthCorrelation(_extract_behavioral_features(posts1),
                                    _extract_behavioral_features(posts2)))

-----------------------------------------------------------------------------
(* The variations of one seed, by each of the two generators *)

SeedAlphabet == {"a", "S", "_"}

\* the names are absent, or both given; the clock is in 2026, or before 1990
Options(first_name, last_name, current_year) ==
    [first_name |-> first_name, last_name |-> last_name,
     current_year |-> current_year]

InitVary ==
    /\ pc = "start"
    /\ normalized = NoText
    /\ profiles_data = NoBatch
    /\ result = NoResult
    /\ previous = NoResult
    /\ all_analyses = NoAnalyses
    /\ score = NoScore
    /\ prev_score = NoScore
    /\ outcome = NoOutcome
    /\ features = NoStylePair
    /\ username_patterns = __init__
    /\ \/ /\ text \in StringsOver(SeedAlphabet, MaxStrLen)
          /\ options = Options(<<>>, <<>>, 2026)
       \/ /\ text \in StringsOver(SeedAlphabet, 1)
          /\ options = Options(<<"A", "l">>, <<"B", "o">>, 1989)

GenerateUsernameVariations ==
    /\ pc = "start"
    /\ outcome' = <<Returned(generate_username_variations(
                        text, options.first_name, options.last_name,
                        options.current_year))>>
    /\ pc' = "generate_username_variations"
    /\ UNCHANGED <<text, normalized, profiles_data, result, previous, all_analyses,
                   score, prev_score, features, options, username_patterns>>

CorrelatorGenerateUsernameVariations ==
    /\ pc = "start"
    /\ outcome' = <<Returned(_generate_username_variations(text))>>
    /\ pc' = "_generate_username_variations"
    /\ UNCHANGED <<text, normalized, profiles_data, result, previous, all_analyses,
                   score, prev_score, features, options, username_patterns>>

NextVary == GenerateUsernameVariations \/ CorrelatorGenerateUsernameVariations

SpecVary == InitVary /\ [][NextVary]_vars

NoDuplicates(seq) == \A i, j \in 1..Len(seq) : seq[i] = seq[j] => i = j

\* C14: for every seed, each of the two variation generators returns a
\* sequence without duplicates that has at most 100 elements.
C14_VariationsDeduplicatedAndCapped ==
    pc \in {"generate_username_variations", "_generate_username_variations"} =>
        /\ NoDuplicates(outcome[1].value)
        /\ Len(outcome[1].value) <= VariationLimit

-----------------------------------------------------------------------------
(* Batches whose records lack fields or hold None for them *)

\* a dict from its optional entries: <<>> for a key that is absent, <<v>> for a
\* key that holds v
DictOf(entries) ==
    [k \in {q \in DOMAIN entries : entries[q] # <<>>} |-> entries[k][1]]

\* a text field is absent, None, or the given text
OptionalText(value) == {<<>>, <<None>>, <<value>>}

SparseProfiles ==
    {DictOf([username |-> u, display_name |-> d, biography |-> b]) :
        u \in OptionalText(<<"a", "b">>), d \in OptionalText(<<"x", " ", "y">>),
        b \in OptionalText(PlainBio)}

SparseRecords ==
    {DictOf([platform |-> <<pf>>, profile |-> pr, posts |-> po]) :
        pf \in {Instagram, Twitter},
        pr \in {<<>>, <<NoneProfile>>} \cup {<<d>> : d \in SparseProfiles},
        po \in {<<>>, <<NonePosts>>, <<<<Post(Iso(0), <<>>, 0)>>>>}}

InitSparse ==
    /\ pc = "start"
    /\ text = NoText
    /\ normalized = NoText
    /\ profiles_data \in [1..2 -> SparseRecords]
    /\ result = NoResult
    /\ previous = NoResult
    /\ all_analyses = NoAnalyses
    /\ score = NoScore
    /\ prev_score = NoScore
    /\ outcome = NoOutcome
    /\ features = NoStylePair
    /\ options = NoOptions
    /\ username_patterns = __init__

FindAccountsSparse ==
    /\ pc = "start"
    /\ outcome' = <<FindAccountsOutcome(profiles_data)>>
    /\ pc' = "find_cross_platform_accounts"
    /\ UNCHANGED <<text, normalized, profiles_data, result, previous, all_analyses,
                   score, prev_score, features, options, username_patterns>>

AnalyzeTimingSparse ==
    /\ pc = "start"
    /\ outcome' = <<analyze_timing_correlation(profiles_data)>>
    /\ pc' = "analyze_timing_correlation"
    /\ UNCHANGED <<text, normalized, profiles_data, result, previous, all_analyses,
                   score, prev_score, features, options, username_patterns>>

AnalyzeBehavioralSparse ==
    /\ pc = "start"
    /\ outcome' = <<Returned(analyze_behavioral_correlation(profiles_data))>>
    /\ pc' = "analyze_behavioral_correlation"
    /\ UNCHANGED <<text, normalized, profiles_data, result, previous, all_analyses,
                   score, prev_score, features, options, username_patterns>>

NextSparse == FindAccountsSparse \/ AnalyzeTimingSparse \/ AnalyzeBehavioralSparse

SpecSparse == InitSparse /\ [][NextSparse]_vars

\* C15: missing or malformed fields never abort the batch: whatever fields the
\* records lack or hold None for, find_cross_platform_accounts and the
\* analyses return a result and do not raise.
C15_MissingFieldsNeverRaise ==
    pc # "start" => outcome[1].raised = ""

-----------------------------------------------------------------------------
(* Calls in sequence on one analyzer: the caller hands a batch, one          *)
(* operation runs on it, the caller keeps what it returned and hands the     *)
(* next batch to the same instance.                                          *)

RunProfile(username, display_name) ==
    [username |-> username, display_name |-> display_name, biography |-> <<>>]

\* two records that share a username key and a post text, one record apart,
\* one record whose profile is None
RunRecords ==
    { [platform |-> Instagram, profile |-> RunProfile(<<"a", "b">>, <<"x", " ", "y">>),
       posts |-> <<Post(Iso(0), PlainBio, 0)>>],
      [platform |-> Twitter, profile |-> RunProfile(<<"A", ".", "b", "1">>, <<>>),
       posts |-> <<Post(Iso(2), ShoutedBio, 5)>>],
      [platform |-> Twitter, profile |-> RunProfile(<<"c", "d">>, <<>>),
       posts |-> <<Post(NoDate, <<>>, 0)>>],
      [platform |-> Instagram, profile |-> NoneProfile, posts |-> <<>>] }

RunBatches == UNION {[1..n -> RunRecords] : n \in 0..MaxRunBatch}

RunOperations ==
    {"find_cross_platform_accounts", "analyze_timing_correlation",
     "analyze_behavioral_correlation", "analyze_content_overlap"}

\* what CrossPlatformAnalyzer().operation(batch) ends with
FreshOutcome(operation, batch) ==
    CASE operation = "find_cross_platform_accounts" -> FindAccountsOutcome(batch)
      [] operation = "analyze_timing_correlation" -> analyze_timing_correlation(batch)
      [] operation = "analyze_behavioral_correlation" ->
             Returned(analyze_behavioral_correlation(batch))
      [] operation = "analyze_content_overlap" -> analyze_content_overlap(batch)

InitRuns ==
    /\ pc = "start"
    /\ text = NoText
    /\ normalized = NoText
    /\ profiles_data \in RunBatches
    /\ result = NoResult
    /\ previous = NoResult
    /\ all_analyses = NoAnalyses
    /\ score = NoScore
    /\ prev_score = NoScore
    /\ outcome = NoOutcome
    /\ features = NoStylePair
    /\ options = NoOptions
    /\ username_patterns = __init__

\* username written back lower-cased into each record that has one
LoweredInPlace(batch) ==
    [i \in 1..Len(batch) |->
        IF GroupingRaises(batch[i]) \/ "username" \notin DOMAIN ProfileOf(batch[i])
        THEN batch[i]
        ELSE [batch[i] EXCEPT !.profile.username = Lower(@)]]

\* find_cross_platform_accounts normalizing the usernames of its input in place
FindAccountsLoweringInput ==
    /\ pc = "start"
    /\ outcome' = <<FreshOutcome("find_cross_platform_accounts", profiles_data)>>
    /\ profiles_data' = LoweredInPlace(profiles_data)
    /\ pc' = "find_cross_platform_accounts"
    /\ UNCHANGED <<text, normalized, result, previous, all_analyses,
                   score, prev_score, features, options, username_patterns>>

\* analyze_content_overlap with its result kept on the analyzer: once a call
\* has returned, later calls return that result whatever their batch
ContentOverlapKeepingHashes ==
    /\ pc = "start"
    /\ outcome' = IF previous # NoResult /\ previous[1].raised = ""
                  THEN previous
                  ELSE <<FreshOutcome("analyze_content_overlap", profiles_data)>>
    /\ pc' = "analyze_content_overlap"
    /\ UNCHANGED <<text, normalized, profiles_data, result, previous, all_analyses,
                   score, prev_score, features, options, username_patterns>>

\* self.<operation>(profiles_data), for each of the four operations: none of
\* their statements assigns to an attribute of self, to profiles_data, to a
\* record or to a post, and every container they fill is created in the call
\* lines 22-91: the groups are three new defaultdict(list)
RunFindAccounts ==
    /\ pc = "start"
    /\ outcome' = <<FreshOutcome("find_cross_platform_accounts", profiles_data)>>
    /\ pc' = "find_cross_platform_accounts"
    /\ UNCHANGED <<text, normalized, profiles_data, result, previous, all_analyses,
                   score, prev_score, features, options, username_patterns>>

\* lines 224-275: platform_timings is a new dict
RunTimingCorrelation ==
    /\ pc = "start"
    /\ outcome' = <<FreshOutcome("analyze_timing_correlation", profiles_data)>>
    /\ pc' = "analyze_timing_correlation"
    /\ UNCHANGED <<text, normalized, profiles_data, result, previous, all_analyses,
                   score, prev_score, features, options, username_patterns>>

\* lines 144-183: behavioral_profiles is a new list
RunBehavioralCorrelation ==
    /\ pc = "start"
    /\ outcome' = <<FreshOutcome("analyze_behavioral_correlation", profiles_data)>>
    /\ pc' = "analyze_behavioral_correlation"
    /\ UNCHANGED <<text, normalized, profiles_data, result, previous, all_analyses,
                   score, prev_score, features, options, username_patterns>>

\* lines 185-222: content_hashes is a new defaultdict(list)
RunContentOverlap ==
    /\ pc = "start"
    /\ outcome' = <<FreshOutcome("analyze_content_overlap", profiles_data)>>
    /\ pc' = "analyze_content_overlap"
    /\ UNCHANGED <<text, normalized, profiles_data, result, previous, all_analyses,
                   score, prev_score, features, options, username_patterns>>

\* the caller keeps the outcome and hands another batch to the same analyzer
NextBatch ==
    /\ pc # "start"
    /\ previous' = outcome
    /\ outcome' = NoOutcome
    /\ profiles_data' \in RunBatches
    /\ pc' = "start"
    /\ UNCHANGED <<text, normalized, result, all_analyses, score, prev_score,
                   features, options, username_patterns>>

NextRuns ==
    \/ RunFindAccounts
    \/ RunTimingCorrelation
    \/ RunBehavioralCorrelation
    \/ RunContentOverlap
    \/ NextBatch

SpecRuns == InitRuns /\ [][NextRuns]_vars

-----------------------------------------------------------------------------
(* Blocking by biography length, and the entry kept for a set of members     *)
(* that several passes match                                                 *)

\* two records matched by name and by biography, a third matched with the
\* first by username and by name, a second harvest of the first under another
\* display name; two records with one biography of exactly 20 characters, two
\* with one of 19
BlockPool ==
    { ProfileData(Instagram, <<"k", "a">>, <<"x", " ", "y">>, PlainBio),
      ProfileData(Twitter, <<"k", "b">>, <<"x", " ", "y">>, ShoutedBio),
      ProfileData(Twitter, <<"k", "a">>, <<"x", " ", "y">>, <<>>),
      ProfileData(Instagram, <<"k", "a">>, <<"z", "z">>, <<>>),
      ProfileData(Instagram, <<"p">>, <<>>, Repeat("b", 20)),
      ProfileData(Twitter, <<"q">>, <<>>, Repeat("b", 20)),
      ProfileData(Instagram, <<"r">>, <<>>, Repeat("c", 19)),
      ProfileData(Twitter, <<"s">>, <<>>, Repeat("c", 19)) }

BlockBatches == UNION {[1..n -> BlockPool] : n \in 0..MaxBatch}

InitBlock ==
    /\ pc = "start"
    /\ text = NoText
    /\ normalized = NoText
    /\ profiles_data \in BlockBatches
    /\ result = NoResult
    /\ previous = NoResult
    /\ all_analyses = NoAnalyses
    /\ score = NoScore
    /\ prev_score = NoScore
    /\ outcome = NoOutcome
    /\ features = NoStylePair
    /\ options = NoOptions
    /\ username_patterns = __init__

FindAccountsBlock ==
    /\ pc = "start"
    /\ result' = find_cross_platform_accounts(profiles_data)
    /\ pc' = "find_cross_platform_accounts"
    /\ UNCHANGED <<text, normalized, profiles_data, previous, all_analyses, score,
                   prev_score, outcome, features, options, username_patterns>>

NextBlock == FindAccountsBlock

SpecBlock == InitBlock /\ [][NextBlock]_vars

\* the platform-qualified members of a match or of an entry, as a set
MemberSet(profiles) == {QualifiedId(p) : p \in Members(profiles)}

\* C22: biography blocking applies exactly to biographies of 20 characters or
\* more: no record with a shorter biography is in a biography match, and two
\* records with one biography of exactly 20 characters are together in a
\* biography match.
C22_BioBlockingFromTwentyChars ==
    Ran =>
        /\ \A m \in Matches(result) : m.match_type = "biography" =>
               \A p \in Members(m.profiles) : Len(p[2].profile.biography) >= 20
        /\ \A i, j \in 1..Len(profiles_data) :
               (/\ i # j
                /\ Len(profiles_data[i].profile.biography) = 20
                /\ profiles_data[i].profile.biography
                     = profiles_data[j].profile.biography)
               => \E m \in Matches(result) :
                     m.match_type = "biography" /\ Together(m, profiles_data, i, j)

\* C23: each entry records its strongest verdict: its match_confidence and
\* match_type are those of the match of highest confidence among the matches
\* over its set of members.
C23_EntryKeepsStrongestMatch ==
    Ran =>
        \A e \in Entries(result) : \A m \in Matches(result) :
            MemberSet(m.profiles) = MemberSet(e.profiles)
            => e.match_confidence >= m.confidence

\* no two entries have the same set of members, and there are no more entries
\* than matches
DistinctMemberSets(r) ==
    /\ \A k, l \in 1..Len(r.cross_platform_users) :
           MemberSet(r.cross_platform_users[k].profiles)
             = MemberSet(r.cross_platform_users[l].profiles) => k = l
    /\ Len(r.cross_platform_users) <= Len(r.matches)

\* the entry of a set of members is made from the first match over that set
FirstMatchKept(r) ==
    \A e \in Entries(r) :
        \E k \in 1..Len(r.matches) :
            /\ MemberSet(r.matches[k].profiles) = MemberSet(e.profiles)
            /\ \A l \in 1..(k - 1) :
                   MemberSet(r.matches[l].profiles) # MemberSet(e.profiles)
            /\ e.match_type = r.matches[k].match_type
            /\ e.match_confidence = r.matches[k].confidence
            /\ e.profiles = r.matches[k].profiles

\* the claim as stated, for every batch
C27_EntriesDistinctForEveryBatch ==
    Ran => DistinctMemberSets(result) /\ FirstMatchKept(result)

\* C27: in a batch with unique (platform, username), no two entries of
\* cross_platform_users have the same set of platform-qualified members: the
\* matches over one set of members collapse into one entry, made from the
\* first of them in the order username, display name, biography, and there are
\* no more entries than matches.
C27_EntriesDistinctOnUniqueIdentities ==
    (Ran /\ UniqueIdentities(profiles_data)) =>
        DistinctMemberSets(result) /\ FirstMatchKept(result)

\* two matches over one set of members, by display name and by biography,
\* collapsed into the one entry of the display-name match
C27_Witness ==
    /\ Ran /\ UniqueIdentities(profiles_data)
    /\ Len(result.matches) = 2
    /\ MemberSet(result.matches[1].profiles) = MemberSet(result.matches[2].profiles)
    /\ Len(result.cross_platform_users) = 1
    /\ result.cross_platform_users[1].match_type = "display_name"

-----------------------------------------------------------------------------
(* The similarity of two usernames, and of the same two in the other order   *)

SimilarAlphabet == {"a", "b", "c", "B"}

InitSimilar ==
    /\ pc = "start"
    /\ text = NoText
    /\ normalized = NoText
    /\ profiles_data = NoBatch
    /\ result = NoResult
    /\ previous = NoResult
    /\ all_analyses = NoAnalyses
    /\ score = NoScore
    /\ prev_score = NoScore
    /\ outcome = NoOutcome
    /\ features \in StringsOver(SimilarAlphabet, MaxStrLen)
                      \X StringsOver(SimilarAlphabet, MaxStrLen)
    /\ options = NoOptions
    /\ username_patterns = __init__

CalculateUsernameSimilarity ==
    /\ pc = "start"
    /\ outcome' = <<Returned(_calculate_username_similarity(features[1], features[2]))>>
    /\ pc' = "_calculate_username_similarity"
    /\ UNCHANGED <<text, normalized, profiles_data, result, previous, all_analyses,
                   score, prev_score, features, options, username_patterns>>

\* the same call with the two usernames exchanged
CalculateUsernameSimilaritySwapped ==
    /\ pc = "_calculate_username_similarity"
    /\ previous' = outcome
    /\ outcome' = <<Returned(_calculate_username_similarity(features[2], features[1]))>>
    /\ pc' = "swapped"
    /\ UNCHANGED <<text, normalized, profiles_data, result, all_analyses,
                   score, prev_score, features, options, username_patterns>>

NextSimilar == CalculateUsernameSimilarity \/ CalculateUsernameSimilaritySwapped

SpecSimilar == InitSimilar /\ [][NextSimilar]_vars

\* C24: identifier similarity is symmetric and maximal on equal identifiers:
\* the two orders of any two usernames give the same value, and the value is
\* 1.0 when the usernames are equal ignoring case.
C24_SimilaritySymmetric ==
    /\ pc = "swapped" => RatEq(outcome[1].value, previous[1].value)
    /\ (pc # "start" /\ Lower(features[1]) = Lower(features[2]))
           => RatEq(outcome[1].value, <<1, 1>>)

-----------------------------------------------------------------------------
(* The content overlap of two records, of one platform or of two             *)

\* texts of 22 and 23 characters with one fingerprint, of 20 and of 21
OverlapContents ==
    {PlainBio, ShoutedBio, Repeat("b", 20), Repeat("b", 21)}

OverlapPostLists ==
    UNION {[1..n -> {Post(NoDate, content, 0) : content \in OverlapContents}] :
              n \in 0..MaxPosts}

OverlapRecords ==
    {[platform |-> platform, profile |-> RunProfile(<<"a">>, <<>>), posts |-> posts] :
        platform \in {Instagram, Twitter}, posts \in OverlapPostLists}

InitOverlap ==
    /\ pc = "start"
    /\ text = NoText
    /\ normalized = NoText
    /\ profiles_data \in [1..2 -> OverlapRecords]
    /\ result = NoResult
    /\ previous = NoResult
    /\ all_analyses = NoAnalyses
    /\ score = NoScore
    /\ prev_score = NoScore
    /\ outcome = NoOutcome
    /\ features = NoStylePair
    /\ options = NoOptions
    /\ username_patterns = __init__

AnalyzeContentOverlap ==
    /\ pc = "start"
    /\ outcome' = <<analyze_content_overlap(profiles_data)>>
    /\ pc' = "analyze_content_overlap"
    /\ UNCHANGED <<text, normalized, profiles_data, result, previous, all_analyses,
                   score, prev_score, features, options, username_patterns>>

NextOverlap == AnalyzeContentOverlap

SpecOverlap == InitOverlap /\ [][NextOverlap]_vars

\* the posts of the batch, each with the platform tag of its record
TaggedPosts(batch) ==
    UNION {{<<PlatformOf(batch[i]), batch[i].posts[k]>> : k \in 1..Len(batch[i].posts)} :
              i \in 1..Len(batch)}

\* the platform tags of the posts of the batch that carry a fingerprint
PlatformsCarrying(batch, content_hash) ==
    {tp[1] : tp \in {q \in TaggedPosts(batch) :
                        /\ Len(q[2].caption) > 20
                        /\ _create_content_hash(q[2].caption) = content_hash}}

\* C28: a fingerprint is reported as cross-posted only when posts carrying it
\* come from at least 2 distinct platform tags: content repeated within one
\* platform, by one profile or by two, is never reported, and only posts of
\* more than 20 characters are fingerprinted.
C28_CrossPostsSpanPlatforms ==
    pc = "analyze_content_overlap" =>
        LET cross_posts == outcome[1].value.cross_posted_content
        IN  /\ outcome[1].raised = ""
            /\ outcome[1].value.total_cross_posts = Len(cross_posts)
            /\ \A k \in 1..Len(cross_posts) :
                  /\ Cardinality(PlatformsCarrying(profiles_data,
                                                   cross_posts[k].content_hash)) >= 2
                  /\ cross_posts[k].cross_platform_count =
                         Cardinality(PlatformsCarrying(profiles_data,
                                                       cross_posts[k].content_hash))
                  /\ \A n \in 1..Len(cross_posts[k].posts) :
                         /\ Len(cross_posts[k].posts[n].post.caption) > 20
                         /\ _create_content_hash(cross_posts[k].posts[n].post.caption)
                              = cross_posts[k].content_hash

\* two profiles of one platform posted the same text of more than 20
\* characters, and nothing is reported
C28_Witness ==
    /\ pc = "analyze_content_overlap"
    /\ profiles_data[1].platform = profiles_data[2].platform
    /\ \E p1 \in Members(profiles_data[1].posts), p2 \in Members(profiles_data[2].posts) :
           /\ Len(p1.caption) > 20
           /\ _create_content_hash(p1.caption) = _create_content_hash(p2.caption)
    /\ outcome[1].raised = ""
    /\ outcome[1].value.total_cross_posts = 0

-----------------------------------------------------------------------------
(* CrossPlatformCorrelator: the accounts of one username on the platforms    *)

\* CrossPlatformCorrelator(): self.platforms
platforms == <<"instagram", "twitter", "youtube", "tiktok", "linkedin">>

\* a profile as the fetchers write it; a key that is absent is held as ''
CorrelatorProfile(full_name, display_name, channel_name, biography, bio, description) ==
    [full_name |-> full_name, display_name |-> display_name,
     channel_name |-> channel_name, biography |-> biography, bio |-> bio,
     description |-> description]

EmptyProfile == CorrelatorProfile(<<>>, <<>>, <<>>, <<>>, <<>>, <<>>)

\* a parsed JSON document: a dict or a list of so many items, the dict with
\* its 'profile' when it has one
Json(kind, size, profile) == [kind |-> kind, size |-> size, profile |-> profile]

\* data_dir/platform/username: no directory, a directory without data_*.json,
\* a file json.load rejects, a path the file system refuses, a parsed file
OnDisk(state, data) == [state |-> state, data |-> data]

\* None is held as <<>>
_load_platform_data(entry) ==
    IF entry.state = "raises" THEN Raised("OSError")
    ELSE IF entry.state = "no_dir" THEN Returned(<<>>)
    ELSE IF entry.state = "no_file" THEN Returned(<<>>)
    ELSE IF entry.state = "corrupt" THEN Returned(<<>>)
    ELSE Returned(<<entry.data>>)

NotFound == [found |-> FALSE, profile |-> <<>>, confidence |-> 0]

\* the body of the loop of correlate_accounts for one platform
CheckPlatform(entry) ==
    LET loaded == _load_platform_data(entry)
    IN  IF loaded.raised # "" THEN NotFound
        ELSE IF loaded.value = <<>> THEN NotFound
        ELSE LET platform_data == loaded.value[1]
             IN  IF platform_data.size = 0 THEN NotFound
                 ELSE IF platform_data.kind # "dict" THEN NotFound
                 ELSE [found |-> TRUE,
                       profile |-> <<IF platform_data.profile = <<>>
                                     THEN EmptyProfile
                                     ELSE platform_data.profile[1]>>,
                       confidence |-> 100]

\* a loop that a raising load leaves: the platforms after it are not checked
RECURSIVE CheckPlatformsUntilFailure(_)
CheckPlatformsUntilFailure(disk) ==
    IF disk = <<>> \/ _load_platform_data(Head(disk)).raised # "" THEN <<>>
    ELSE <<CheckPlatform(Head(disk))>> \o CheckPlatformsUntilFailure(Tail(disk))

\* correlations, in the order of self.platforms
CheckPlatforms(disk) == [i \in 1..Len(disk) |-> CheckPlatform(disk[i])]

FirstOf(a, b, c) == IF a # <<>> THEN a ELSE IF b # <<>> THEN b ELSE c

\* the pairs i < j of _calculate_text_similarity
_calculate_text_similarity(texts) ==
    IF Len(texts) < 2 THEN <<1, 1>>
    ELSE LET pairs == {ij \in (1..Len(texts)) \X (1..Len(texts)) : ij[1] < ij[2]}
             RECURSIVE SumOver(_)
             SumOver(S) ==
                 IF S = {} THEN <<0, 1>>
                 ELSE LET ij == CHOOSE x \in S : TRUE
                      IN  RatAdd(Ratio(Lower(texts[ij[1]]), Lower(texts[ij[2]])),
                                 SumOver(S \ {ij}))
         IN  <<SumOver(pairs)[1], SumOver(pairs)[2] * Cardinality(pairs)>>

\* the score without the clamp of the last line
IdentityConfidenceUnclamped(common_elements, discrepancies, platform_count) ==
    30 + (IF platform_count * 10 < 40 THEN platform_count * 10 ELSE 40)
       + common_elements * 10 - discrepancies * 15

_calculate_identity_confidence(common_elements, discrepancies, platform_count) ==
    LET base_score == 30 + (IF platform_count * 10 < 40 THEN platform_count * 10 ELSE 40)
                         + common_elements * 10 - discrepancies * 15
    IN  Max(0, IF base_score < 100 THEN base_score ELSE 100)

_analyze_correlations(correlations) ==
    LET found_platforms == SelectSeq([i \in 1..Len(correlations) |-> i],
                                     LAMBDA i : correlations[i].found)
        profiles == [k \in 1..Len(found_platforms) |->
                        correlations[found_platforms[k]].profile[1]]
        names == SelectSeq([k \in 1..Len(profiles) |->
                               FirstOf(profiles[k].full_name, profiles[k].display_name,
                                       profiles[k].channel_name)],
                           LAMBDA n : n # <<>>)
        bios == SelectSeq([k \in 1..Len(profiles) |->
                              FirstOf(profiles[k].biography, profiles[k].bio,
                                      profiles[k].description)],
                          LAMBDA b : b # <<>>)
        bio_similarity == _calculate_text_similarity(bios)
        common_elements ==
            (IF Cardinality(Range(names)) = 1 THEN <<"Consistent name">> ELSE <<>>)
            \o (IF bios # <<>> /\ ~RatGeq(<<7, 10>>, bio_similarity)
                THEN <<"Similar bio/description content">> ELSE <<>>)
        discrepancies ==
            (IF Cardinality(Range(names)) > 1 THEN <<"Different names">> ELSE <<>>)
            \o (IF bios # <<>> /\ RatGeq(<<7, 10>>, bio_similarity)
                              /\ ~RatGeq(bio_similarity, <<3, 10>>)
                THEN <<"Very different bio/description content">> ELSE <<>>)
        identity_confidence ==
            _calculate_identity_confidence(Len(common_elements), Len(discrepancies),
                                           Len(found_platforms))
    IN  IF Len(found_platforms) < 2
        THEN [correlation_strength |-> "Low", common_elements |-> <<>>,
              discrepancies |-> <<>>, identity_confidence |-> 50,
              platforms_found |-> <<>>]
        ELSE [correlation_strength |->
                  IF identity_confidence > 80 THEN "High"
                  ELSE IF identity_confidence > 60 THEN "Medium" ELSE "Low",
              common_elements |-> common_elements,
              discrepancies |-> discrepancies,
              identity_confidence |-> identity_confidence,
              platforms_found |-> [k \in 1..Len(found_platforms) |->
                                      platforms[found_platforms[k]]]]

\* int() of a number that is not negative
IntOf(r) == r[1] \div r[2]

_calculate_footprint_score(correlations) ==
    LET found == SelectSeq(correlations, LAMBDA data : data.found)
        found_count == Len(found)
        total_platforms == Len(platforms)
        presence_score == <<found_count * 60, total_platforms>>
        confidence_bonus ==
            <<RatSum([k \in 1..found_count |-> <<found[k].confidence, 1>>])[1] * 4,
              Max(1, found_count) * 10>>
        total == IntOf(RatAdd(presence_score, confidence_bonus))
    IN  IF total < 100 THEN total ELSE 100

correlate_accounts(username, disk) ==
    LET correlations == CheckPlatforms(disk)
    IN  Returned([username |-> username,
                  platform_presence |-> correlations,
                  correlation_analysis |-> _analyze_correlations(correlations),
                  total_platforms |->
                      Len(SelectSeq(correlations, LAMBDA p : p.found)),
                  digital_footprint_score |-> _calculate_footprint_score(correlations)])

-----------------------------------------------------------------------------
(* correlate_accounts over the data directory of one username                *)

ProfileA == CorrelatorProfile(<<"A">>, <<>>, <<>>, <<"a", "b">>, <<>>, <<>>)
ProfileB == CorrelatorProfile(<<>>, <<"B">>, <<>>, <<>>, <<"c", "d">>, <<>>)
ProfileC == CorrelatorProfile(<<>>, <<>>, <<"A">>, <<>>, <<>>, <<"A", "b">>)

DiskStates ==
    {OnDisk(state, Json("dict", 0, <<>>)) :
        state \in {"no_dir", "no_file", "corrupt", "raises"}}
    \cup {OnDisk("file", data) :
             data \in {Json("dict", 0, <<>>), Json("list", 1, <<>>),
                       Json("dict", 2, <<>>), Json("dict", 3, <<ProfileA>>),
                       Json("dict", 3, <<ProfileB>>), Json("dict", 3, <<ProfileC>>)}}

InitCorrelate ==
    /\ pc = "start"
    /\ text = <<"u">>
    /\ normalized = NoText
    /\ profiles_data \in [1..Len(platforms) -> DiskStates]
    /\ result = NoResult
    /\ previous = NoResult
    /\ all_analyses = NoAnalyses
    /\ score = NoScore
    /\ prev_score = NoScore
    /\ outcome = NoOutcome
    /\ features = NoStylePair
    /\ options = NoOptions
    /\ username_patterns = __init__

CorrelateAccounts ==
    /\ pc = "start"
    /\ outcome' = <<correlate_accounts(text, profiles_data)>>
    /\ pc' = "correlate_accounts"
    /\ UNCHANGED <<text, normalized, profiles_data, result, previous, all_analyses,
                   score, prev_score, features, options, username_patterns>>

NextCorrelate == CorrelateAccounts

SpecCorrelate == InitCorrelate /\ [][NextCorrelate]_vars

\* the load of this platform fails or raises
LoadFails(entry) ==
    \/ entry.state \in {"no_dir", "no_file", "corrupt", "raises"}
    \/ entry.data.size = 0
    \/ entry.data.kind # "dict"

-----------------------------------------------------------------------------
(* The two scores of the correlator                                          *)

MaxElements == 6

\* the lengths of common_elements and of discrepancies, and platform_count
ElementCounts == (0..MaxElements) \X (0..MaxElements) \X (0..MaxElements)

\* the entries correlate_accounts builds
PresenceEntries ==
    {NotFound, [found |-> TRUE, profile |-> <<EmptyProfile>>, confidence |-> 100]}

InitScore ==
    /\ pc = "start"
    /\ text = NoText
    /\ normalized = NoText
    /\ profiles_data \in [1..Len(platforms) -> PresenceEntries]
    /\ result = NoResult
    /\ previous = NoResult
    /\ all_analyses = NoAnalyses
    /\ score = NoScore
    /\ prev_score = NoScore
    /\ outcome = NoOutcome
    /\ features \in ElementCounts
    /\ options = NoOptions
    /\ username_patterns = __init__

CalculateIdentityConfidence ==
    /\ pc = "start"
    /\ outcome' = <<Returned(_calculate_identity_confidence(features[1], features[2],
                                                            features[3]))>>
    /\ pc' = "_calculate_identity_confidence"
    /\ UNCHANGED <<text, normalized, profiles_data, result, previous, all_analyses,
                   score, prev_score, features, options, username_patterns>>

CalculateFootprintScore ==
    /\ pc = "start"
    /\ outcome' = <<Returned(_calculate_footprint_score(profiles_data))>>
    /\ pc' = "_calculate_footprint_score"
    /\ UNCHANGED <<text, normalized, profiles_data, result, previous, all_analyses,
                   score, prev_score, features, options, username_patterns>>

NextScore ==
    \/ CalculateIdentityConfidence
    \/ CalculateFootprintScore

SpecScore == InitScore /\ [][NextScore]_vars

FoundCount(correlations) ==
    Cardinality({i \in 1..Len(correlations) : correlations[i].found})

\* C30: _calculate_identity_confidence returns an integer of [0,100] for any
\* numbers of common elements, discrepancies and platforms;
\* _calculate_footprint_score returns an integer of [0,100] that is 0 when no
\* platform is found and 100 only when all five platforms are found.
C30_ScoresInRange ==
    /\ pc = "_calculate_identity_confidence" =>
           /\ outcome[1].raised = ""
           /\ outcome[1].value \in 0..100
    /\ pc = "_calculate_footprint_score" =>
           /\ outcome[1].raised = ""
           /\ outcome[1].value \in 0..100
           /\ FoundCount(profiles_data) = 0 => outcome[1].value = 0
           /\ outcome[1].value = 100 => FoundCount(profiles_data) = 5

\* six common elements on four platforms: the sum of 130 is returned as 100
C30_Witness ==
    /\ pc = "_calculate_identity_confidence"
    /\ features = <<6, 0, 4>>
    /\ outcome[1].value = 100

====
